---- MODULE Spec2Model ----
(***************************************************************************)
(* better-shop: the endpoint builders (store, products, collections,       *)
(* checkout, utils), the tenant resolver makeGetShop and the router that   *)
(* betterShop() builds from them, as a state machine over one request.     *)
(*                                                                         *)
(* JavaScript values are tagged records.  Query text that the code parses  *)
(* (page, limit, the checkout email) is spelled out as a sequence of       *)
(* one-character strings, so that Number() and the email format are        *)
(* computed and not looked up.                                             *)
(***************************************************************************)
EXTENDS Integers, Sequences, FiniteSets, TLC

\* ------------------------------------------------------------------ bounds

\* longest page/limit query text, in characters
MaxLen == 2

\* tenant handles constructed before the run stops taking requests
MaxHandles == 2

\* ------------------------------------------------------------- JS values

Undef == [t |-> "undefined"]
Null == [t |-> "null"]
Str(s) == [t |-> "string", s |-> s]
Chars(c) == [t |-> "string", c |-> c]
Num(n) == [t |-> "number", n |-> n]
NaN == [t |-> "number", nan |-> TRUE]
Bool(b) == [t |-> "boolean", b |-> b]
Obj(f) == [t |-> "object", f |-> f]
Arr(a) == [t |-> "array", a |-> a]

Keys(v) == DOMAIN v

\* obj?.key : the value under key, undefined when the key is not there
Get(o, k) == IF k \in DOMAIN o THEN o[k] ELSE Undef

IsStr(v) == v.t = "string"
IsNum(v) == v.t = "number"
IsNaN(v) == v.t = "number" /\ "nan" \in DOMAIN v

\* JS truthiness, as used by `v.page ? ... : undefined` and `if (!product)`
Truthy(v) ==
  CASE v.t = "undefined" -> FALSE
    [] v.t = "null" -> FALSE
    [] v.t = "boolean" -> v.b
    [] v.t = "number" -> IF IsNaN(v) THEN FALSE ELSE v.n # 0
    [] v.t = "string" -> IF "c" \in DOMAIN v THEN v.c # <<>> ELSE v.s # ""
    [] OTHER -> TRUE

Digits == {"0", "1", "2"}

DigitVal(ch) == CASE ch = "0" -> 0 [] ch = "1" -> 1 [] ch = "2" -> 2

\* the decimal value of a sequence of digits, most significant first
RECURSIVE DecimalOf(_)
DecimalOf(c) ==
  IF c = <<>> THEN 0
  ELSE 10 * DecimalOf(SubSeq(c, 1, Len(c) - 1)) + DigitVal(c[Len(c)])

\* Number(v) on a string of the model's alphabet or on a number
NumberJS(v) ==
  IF IsNum(v) THEN v
  ELSE IF v.c = <<>> THEN Num(0)
  ELSE IF \A i \in 1..Len(v.c) : v.c[i] \in Digits THEN Num(DecimalOf(v.c))
  ELSE NaN

\* --------------------------------------------------- arktype input schemas

KString == [k |-> "string"]
KNumber == [k |-> "number"]
KBoolean == [k |-> "boolean"]

\* a page/limit schema that admits numbers only
KNumberOnly == [k |-> "number"]

KStringOrNumber == [k |-> "string|number"]
KEmail == [k |-> "string.email"]
KEnum(vals) == [k |-> "enum", vals |-> vals]
KObject(fields) == [k |-> "object", fields |-> fields]
KArray(of) == [k |-> "array", of |-> of]
NoSchema == [k |-> "none"]

Opt(kind) == [kind |-> kind, req |-> FALSE]
Req(kind) == [kind |-> kind, req |-> TRUE]

LocalChars == {"a", ".", "-"}
DomainChars == {"a", ".", "-"}
Letters == {"a"}

AllIn(c, from, to, S) == \A i \in from..to : c[i] \in S

\* arktype's string.email: ^[\w%+.-]+@[\d.A-Za-z-]+\.[A-Za-z]{2,}$
IsEmail(c) ==
  \E i \in 1..Len(c), j \in 1..Len(c) :
    /\ c[i] = "@" /\ i > 1 /\ AllIn(c, 1, i - 1, LocalChars)
    /\ c[j] = "." /\ j > i + 1 /\ AllIn(c, i + 1, j - 1, DomainChars)
    /\ Len(c) - j >= 2 /\ AllIn(c, j + 1, Len(c), Letters)

\* a validator that looks for the required keys and not at their values
ConformsShallow(kind, v) ==
  IF kind.k = "object"
  THEN v.t = "object"
       /\ \A key \in DOMAIN kind.fields : key \in DOMAIN v.f \/ ~kind.fields[key].req
  ELSE TRUE

\* whether value v is of the arktype kind
RECURSIVE Conforms(_, _)
Conforms(kind, v) ==
  CASE kind.k = "string" -> IsStr(v)
    [] kind.k = "number" -> IsNum(v) /\ ~IsNaN(v)
    [] kind.k = "boolean" -> v.t = "boolean"
    [] kind.k = "string|number" -> IsStr(v) \/ (IsNum(v) /\ ~IsNaN(v))
    [] kind.k = "string.email" -> IsStr(v) /\ "c" \in DOMAIN v /\ IsEmail(v.c)
    [] kind.k = "enum" -> IsStr(v) /\ "s" \in DOMAIN v /\ v.s \in kind.vals
    [] kind.k = "array" ->
         v.t = "array" /\ \A i \in 1..Len(v.a) : Conforms(kind.of, v.a[i])
    [] kind.k = "object" ->
         /\ v.t = "object"
         /\ \A key \in DOMAIN kind.fields :
              IF key \in DOMAIN v.f
              THEN Conforms(kind.fields[key].kind, v.f[key])
              ELSE ~kind.fields[key].req

ForceQuery == KObject([force |-> Opt(KString)])
CurrencyQuery == KObject([currency |-> Opt(KString)])
PageLimitQuery ==
  KObject([page |-> Opt(KStringOrNumber), limit |-> Opt(KStringOrNumber)])
PageLimitCurrencyQuery ==
  KObject([page |-> Opt(KStringOrNumber), limit |-> Opt(KStringOrNumber),
           currency |-> Opt(KString)])
StoreSlugQuery == KObject([domain |-> Opt(KString)])
ProductSlugQuery == KObject([handle |-> Req(KString), domain |-> Opt(KString)])

StoreTypeBody ==
  KObject([apiKey |-> Opt(KString), model |-> Opt(KString),
           maxShowcaseProducts |-> Opt(KNumber),
           maxShowcaseCollections |-> Opt(KNumber)])
EnrichedBody ==
  KObject([apiKey |-> Opt(KString), useGfm |-> Opt(KBoolean),
           inputType |-> Opt(KEnum({"markdown", "html"})),
           model |-> Opt(KString),
           outputFormat |-> Opt(KEnum({"markdown", "json"}))])
ModelBody == KObject([apiKey |-> Opt(KString), model |-> Opt(KString)])

CheckoutItem ==
  KObject([productVariantId |-> Req(KString), quantity |-> Req(KString)])
CheckoutAddress ==
  KObject([firstName |-> Req(KString), lastName |-> Req(KString),
           address1 |-> Req(KString), city |-> Req(KString),
           zip |-> Req(KString), country |-> Req(KString),
           province |-> Req(KString), phone |-> Req(KString)])
CheckoutBody ==
  KObject([email |-> Req(KEmail), items |-> Req(KArray(CheckoutItem)),
           address |-> Req(CheckoutAddress)])

\* a coercion by truthiness: every non-empty text counts as true
ForcePipeTruthy(q) == [force |-> Bool(Truthy(Get(q, "force")))]

\* the .pipe() morphs applied to a query that passed its schema;
\* getInfo: (v) => ({ force: v.force === "true" })
ForcePipe(q) == [force |-> Bool(Get(q, "force") = Str("true"))]

\* coercions that keep the text, or that turn an absent value into 0
CoerceKeepText(v) == IF Truthy(v) THEN v ELSE Undef
CoerceZero(v) == IF Truthy(v) THEN NumberJS(v) ELSE Num(0)

\* a coercion that converts whatever is present: v !== undefined ? Number(v) : undefined
CoerceWhenPresent(v) == IF v = Undef THEN Undef ELSE NumberJS(v)

\* v ? Number(v) : undefined
Coerce(v) == IF Truthy(v) THEN NumberJS(v) ELSE Undef

PageLimitPipe(q) ==
  [page |-> Coerce(Get(q, "page")), limit |-> Coerce(Get(q, "limit"))]

PageLimitCurrencyPipe(q) ==
  [page |-> Coerce(Get(q, "page")), limit |-> Coerce(Get(q, "limit")),
   currency |-> Get(q, "currency")]


\* ------------------------------------------------------ endpoint builders

\* createEndpoint(path, {method, query, body}, handler): the handler is
\* found by the endpoint's name in Handle.  H is the path parameter :handle.
H == ":handle"

Endpoint(name, method, path, query, body, pipe) ==
  [name |-> name, method |-> method, path |-> path, query |-> query,
   body |-> body, pipe |-> pipe]

buildStoreEndpoints ==
  << Endpoint("getInfo", "GET", <<"info">>, ForceQuery, NoSchema, "force"),
     Endpoint("clearInfoCache", "POST", <<"info", "clear-cache">>,
              NoSchema, NoSchema, "none"),
     Endpoint("determineStoreType", "POST", <<"store-type">>,
              NoSchema, StoreTypeBody, "none") >>

buildProductEndpoints ==
  << Endpoint("getAllProducts", "GET", <<"products", "all">>,
              CurrencyQuery, NoSchema, "none"),
     Endpoint("getPaginatedProducts", "GET", <<"products", "paginated">>,
              PageLimitCurrencyQuery, NoSchema, "pageLimitCurrency"),
     Endpoint("getShowcasedProducts", "GET", <<"products", "showcased">>,
              NoSchema, NoSchema, "none"),
     Endpoint("getProductFilters", "GET", <<"products", "filters">>,
              NoSchema, NoSchema, "none"),
     Endpoint("getProduct", "GET", <<"products", H>>,
              CurrencyQuery, NoSchema, "none"),
     Endpoint("getEnrichedProduct", "POST", <<"products", H, "enriched">>,
              NoSchema, EnrichedBody, "none"),
     Endpoint("classifyProduct", "POST", <<"products", H, "classify">>,
              NoSchema, ModelBody, "none"),
     Endpoint("generateProductSEO", "POST", <<"products", H, "seo">>,
              NoSchema, ModelBody, "none") >>

buildCollectionEndpoints ==
  << Endpoint("getAllCollections", "GET", <<"collections", "all">>,
              NoSchema, NoSchema, "none"),
     Endpoint("getPaginatedCollections", "GET", <<"collections", "paginated">>,
              PageLimitQuery, NoSchema, "pageLimit"),
     Endpoint("getShowcasedCollections", "GET", <<"collections", "showcased">>,
              NoSchema, NoSchema, "none"),
     Endpoint("getCollection", "GET", <<"collections", H>>,
              NoSchema, NoSchema, "none"),
     Endpoint("getCollectionProductsAll", "GET",
              <<"collections", H, "products", "all">>,
              CurrencyQuery, NoSchema, "none"),
     Endpoint("getCollectionProductsPaginated", "GET",
              <<"collections", H, "products", "paginated">>,
              PageLimitCurrencyQuery, NoSchema, "pageLimitCurrency"),
     Endpoint("getCollectionProductSlugs", "GET", <<"collections", H, "slugs">>,
              NoSchema, NoSchema, "none") >>

buildCheckoutEndpoints ==
  << Endpoint("createCheckoutUrl", "POST", <<"checkout", "url">>,
              NoSchema, CheckoutBody, "none") >>

buildUtilsEndpoints ==
  << Endpoint("detectCountry", "GET", <<"utils", "detect-country">>,
              NoSchema, NoSchema, "none"),
     Endpoint("getStoreSlug", "GET", <<"utils", "store-slug">>,
              StoreSlugQuery, NoSchema, "none"),
     Endpoint("getProductSlug", "GET", <<"utils", "product-slug">>,
              ProductSlugQuery, NoSchema, "none") >>

Builders == {"store", "products", "collections", "checkout", "utils"}

BuilderOrder == <<"store", "products", "collections", "checkout", "utils">>

Build(b) ==
  CASE b = "store" -> buildStoreEndpoints
    [] b = "products" -> buildProductEndpoints
    [] b = "collections" -> buildCollectionEndpoints
    [] b = "checkout" -> buildCheckoutEndpoints
    [] b = "utils" -> buildUtilsEndpoints

\* the endpoint createRouter adds for the OpenAPI reference page
OpenApiEndpoint ==
  Endpoint("openapi", "GET", <<"api", "reference">>, NoSchema, NoSchema, "none")

Range(f) == {f[i] : i \in DOMAIN f}

Definitions ==
  Range(buildStoreEndpoints) \cup Range(buildProductEndpoints)
  \cup Range(buildCollectionEndpoints) \cup Range(buildCheckoutEndpoints)
  \cup Range(buildUtilsEndpoints) \cup {OpenApiEndpoint}

Definition(name) == CHOOSE e \in Definitions : e.name = name


\* ------------------------------------------------------------ the router

\* service-wide ShopClientOptions handed once to makeGetShop / betterShop
Options == {"none", "cacheTTL"}

\* buildXEndpoints(getShop) with getShop = makeGetShop(options): every
\* endpoint closes over the resolver, hence over its options; its schemas and
\* handler are those of its definition
Bind(eps, options) ==
  [i \in DOMAIN eps |->
     [name |-> eps[i].name, method |-> eps[i].method, path |-> eps[i].path,
      options |-> options]]

IndexOfName(eps, name) ==
  IF \E i \in DOMAIN eps : eps[i].name = name
  THEN CHOOSE i \in DOMAIN eps : eps[i].name = name
  ELSE 0

\* { ...a, ...b }: a key of b that a has keeps a's position and takes b's value
RECURSIVE Spread(_, _)
Spread(a, b) ==
  IF b = <<>> THEN a
  ELSE LET e == Head(b)
           at == IndexOfName(a, e.name)
       IN Spread(IF at = 0 THEN Append(a, e) ELSE [a EXCEPT ![at] = e], Tail(b))

\* a merge in which each spread replaces what was merged before
SpreadAllLast(parts) == IF parts = <<>> THEN <<>> ELSE parts[Len(parts)]

RECURSIVE SpreadAll(_)
SpreadAll(parts) ==
  IF parts = <<>> THEN <<>>
  ELSE Spread(SpreadAll(SubSeq(parts, 1, Len(parts) - 1)), parts[Len(parts)])

\* createRouter(endpoints, config): adds the openapi endpoint, then registers
\* every value of the object, in order, under its method and path
createRouter(endpoints) == Spread(endpoints, Bind(<<OpenApiEndpoint>>, "none"))

\* betterShop(options) of shop-service.ts
betterShop(options) ==
  createRouter(Bind(buildStoreEndpoints \o buildProductEndpoints
                    \o buildCollectionEndpoints \o buildCheckoutEndpoints,
                    options))

SegmentMatches(pattern, seg) == pattern = H \/ pattern = seg

\* a lookup that tries the parameter child before the literal one
RECURSIVE LookupParamFirst(_, _, _, _)
LookupParamFirst(rt, cands, path, i) ==
  IF i > Len(path) THEN {k \in cands : Len(rt[k].path) = Len(path)}
  ELSE LET alive == {k \in cands : Len(rt[k].path) >= i}
           lit == {k \in alive : rt[k].path[i] # H /\ rt[k].path[i] = path[i]}
           par == {k \in alive : rt[k].path[i] = H}
           viaPar == LookupParamFirst(rt, par, path, i + 1)
       IN IF viaPar # {} THEN viaPar ELSE LookupParamFirst(rt, lit, path, i + 1)

\* the lookup of the route tree: at each segment the literal child is tried
\* first, the parameter child only when the literal subtree has no match
RECURSIVE Lookup(_, _, _, _)
Lookup(rt, cands, path, i) ==
  IF i > Len(path) THEN {k \in cands : Len(rt[k].path) = Len(path)}
  ELSE LET alive == {k \in cands : Len(rt[k].path) >= i}
           lit == {k \in alive : rt[k].path[i] # H /\ rt[k].path[i] = path[i]}
           par == {k \in alive : rt[k].path[i] = H}
           viaLit == Lookup(rt, lit, path, i + 1)
       IN IF viaLit # {} THEN viaLit ELSE Lookup(rt, par, path, i + 1)

Min(S) == CHOOSE x \in S : \A y \in S : x <= y

\* a lookup that does not look at the method
findRouteAnyMethod(rt, method, path) ==
  LET found == Lookup(rt, DOMAIN rt, path, 1)
  IN IF found = {} THEN 0 ELSE Min(found)

\* findRoute(router, method, path): 0 when no route matches, else the index
\* of the first registered endpoint among the matches
findRoute(rt, method, path) ==
  LET found == Lookup(rt, {k \in DOMAIN rt : rt[k].method = method}, path, 1)
  IN IF found = {} THEN 0 ELSE Min(found)

\* params that take the segment before the parameter's position
ParamsOfShifted(ep, path) ==
  IF \E i \in DOMAIN ep.path : ep.path[i] = H
  THEN [handle |-> Str(path[(CHOOSE i \in DOMAIN ep.path : ep.path[i] = H) - 1])]
  ELSE <<>>

\* route.params of the match
ParamsOf(ep, path) ==
  IF \E i \in DOMAIN ep.path : ep.path[i] = H
  THEN [handle |-> Str(path[CHOOSE i \in DOMAIN ep.path : ep.path[i] = H])]
  ELSE <<>>


\* ------------------------------------------------- the delegate (shop-client)

Domains == {"mock.myshopify.com", "Shop.Example.com"}

\* sanitizeDomain(input, {stripWWW: true}) on the model's domain strings
sanitizeDomain(s) ==
  CASE s = "Shop.Example.com" -> "shop.example.com"
    [] OTHER -> s

\* generateStoreSlug(domain) and genProductSlug({handle, storeDomain}), kept
\* symbolic: the slug names what it was computed from
generateStoreSlug(domain) == [t |-> "string", slugOf |-> <<domain>>]
genProductSlug(handle, domain) == [t |-> "string", slugOf |-> <<domain, handle>>]

\* what an awaited capability can settle with
Entity == Obj([id |-> Str("3"), title |-> Str("Product 3")])
CheckoutUrl == Str("https://checkout.url")
Resolved(v) == [ok |-> TRUE, value |-> v]
Rejected == [ok |-> FALSE, value |-> Undef]
Outcomes == {Resolved(Entity), Resolved(Null), Resolved(Undef), Rejected}

\* a client constructed without the service-wide options
ShopClientNoOptions(domain, options) == [domain |-> domain, options |-> "none"]

\* new ShopClient(domain, options)
ShopClient(domain, options) == [domain |-> domain, options |-> options]

\* headers.get(name): the value, null when the header is missing
HeaderGet(headers, name) == IF name \in DOMAIN headers THEN headers[name] ELSE Null

\* a resolver that only objects to a header that is not there
getShopNullish(options, headers) ==
  LET domain == HeaderGet(headers, "x-shop-domain")
  IN IF domain \in {Null, Undef}
     THEN [threw |-> TRUE, shop |-> Null]
     ELSE [threw |-> FALSE, shop |-> ShopClient(domain.s, options)]

\* makeGetShop(options)(headers): the handle built, or the error thrown when
\* the header is missing or empty
getShop(options, headers) ==
  LET domain == HeaderGet(headers, "x-shop-domain")
  IN IF ~Truthy(domain)
     THEN [threw |-> TRUE, shop |-> Null]
     ELSE [threw |-> FALSE, shop |-> ShopClient(domain.s, options)]

\* one shared instance handed to every caller
NewInstanceShared(shop, made) ==
  [id |-> 1, domain |-> shop.domain, options |-> shop.options]

\* `new`: the instance built by this call is an object no earlier call built
NewInstance(shop, made) ==
  [id |-> made + 1, domain |-> shop.domain, options |-> shop.options]

Max(a, b) == IF a >= b THEN a ELSE b

\* getShop(ctx.headers) as a step: the handle the handler holds afterwards
\* and the tally of calls returned and instances constructed
Resolve(options, headers, tally) ==
  LET got == getShop(options, headers)
      shop == NewInstance(got.shop, tally.made)
  IN IF got.threw
     THEN [threw |-> TRUE, shop |-> Null, count |-> tally]
     ELSE [threw |-> FALSE, shop |-> shop,
           count |-> [resolved |-> tally.resolved + 1,
                      made |-> Max(tally.made, shop.id)]]

\* ------------------------------------------------------------- handlers

\* the capability each delegating handler calls and the arguments it passes,
\* from the validated context
Capability(name) ==
  CASE name = "getInfo" -> "getInfo"
    [] name = "clearInfoCache" -> "clearInfoCache"
    [] name = "determineStoreType" -> "determineStoreType"
    [] name = "getAllProducts" -> "products.all"
    [] name = "getPaginatedProducts" -> "products.paginated"
    [] name = "getShowcasedProducts" -> "products.showcased"
    [] name = "getProductFilters" -> "products.filter"
    [] name = "getProduct" -> "products.find"
    [] name = "getEnrichedProduct" -> "products.enriched"
    [] name = "classifyProduct" -> "products.classify"
    [] name = "generateProductSEO" -> "products.generateSEOContent"
    [] name = "getAllCollections" -> "collections.all"
    [] name = "getPaginatedCollections" -> "collections.paginated"
    [] name = "getShowcasedCollections" -> "collections.showcased"
    [] name = "getCollection" -> "collections.find"
    [] name = "getCollectionProductsAll" -> "collections.products.all"
    [] name = "getCollectionProductsPaginated" -> "collections.products.paginated"
    [] name = "getCollectionProductSlugs" -> "collections.products.slugs"
    [] name = "createCheckoutUrl" -> "checkout.createUrl"

Arguments(name, params, query, body) ==
  LET handle == Get(params, "handle")
      currency == Obj([currency |-> Get(query, "currency")])
      pageLimit == Obj([page |-> Get(query, "page"), limit |-> Get(query, "limit")])
      pageLimitCurrency ==
        Obj([page |-> Get(query, "page"), limit |-> Get(query, "limit"),
             currency |-> Get(query, "currency")])
  IN CASE name = "getInfo" -> <<Obj([force |-> Get(query, "force")])>>
       [] name = "determineStoreType" -> <<body>>
       [] name = "getAllProducts" -> <<currency>>
       [] name = "getPaginatedProducts" -> <<pageLimitCurrency>>
       [] name = "getProduct" -> <<handle, currency>>
       [] name \in {"getEnrichedProduct", "classifyProduct", "generateProductSEO"}
            -> <<handle, body>>
       [] name = "getPaginatedCollections" -> <<pageLimit>>
       [] name \in {"getCollection", "getCollectionProductSlugs"} -> <<handle>>
       [] name = "getCollectionProductsAll" -> <<handle, currency>>
       [] name = "getCollectionProductsPaginated" -> <<handle, pageLimitCurrency>>
       [] name = "createCheckoutUrl" -> <<body>>
       [] OTHER -> <<>>

\* handlers that end with `if (!x) throw new Error("... not found")`
FindHandlers == {"getProduct", "getCollection"}

\* handlers whose capability call is synchronous: they finish without awaiting
SyncHandlers == {"clearInfoCache", "createCheckoutUrl"}

\* handlers that never call the tenant resolver
SlugHandlers == {"getStoreSlug", "getProductSlug"}


\* ---------------------------------------------------------------- state

VARIABLES
  phase,    \* "constructing" until the router is built, then "serving"
  built,    \* the builder outputs that were merged into the router
  router,   \* the registered endpoints, in registration order
  req,      \* per request slot: the request and how far it has got
  cache,    \* the domains whose store info the delegate holds cached
  count     \* resolver calls that returned, ShopClient instances constructed

vars == <<phase, built, router, req, cache, count>>

Rids == {"r1"}

Terminal == {"NO_MATCH", "VALIDATION_FAILED", "TENANT_FAILED", "HANDLED",
             "HANDLER_FAILED"}

NoRequest ==
  [method |-> "GET", path |-> <<>>, headers |-> <<>>, query |-> <<>>,
   body |-> Undef]

Fresh(input, st) ==
  [st |-> st, in |-> input, ep |-> 0, params |-> <<>>, query |-> <<>>,
   body |-> Undef, shop |-> Null, calls |-> <<>>, out |-> Null, ran |-> {},
   errs |-> {}, resp |-> Null]

Response(status, body) == [status |-> status, body |-> body]

\* the statuses the dispatcher answers with
NotFound == 404
BadRequest == 400
ServerError == 500
OK == 200

\* the names of the endpoints a builder returns
NamesOf(b) == {Build(b)[i].name : i \in DOMAIN Build(b)}

\* one builder's output: buildXEndpoints(makeGetShop(options))
Part(b, options) == [builder |-> b, options |-> options, names |-> NamesOf(b)]

\* const { getInfo } = buildStoreEndpoints(getShop): the endpoints taken out
\* of one builder's output
Picked(b, names, options) == [builder |-> b, options |-> options, names |-> names]

\* the endpoints a part hands to createRouter, in the builder's order
Taken(part) == SelectSeq(Build(part.builder), LAMBDA e : e.name \in part.names)

Init ==
  /\ phase = "constructing"
  /\ built = <<>>
  /\ router = <<>>
  /\ req = [r \in Rids |-> Fresh(NoRequest, "IDLE")]
  /\ cache = {}
  /\ count = [resolved |-> 0, made |-> 0]

\* const router = betterShop(options)
ConstructBetterShop ==
  /\ phase = "constructing"
  /\ \E options \in Options :
       /\ router' = betterShop(options)
       /\ built' = [i \in 1..4 |-> Part(BuilderOrder[i], options)]
  /\ phase' = "serving"
  /\ UNCHANGED <<req, cache, count>>

\* createRouter({...store, ...products, ...}) or createRouter({ getInfo,
\* getShowcasedProducts }): the endpoints of each part, bound to its resolver
ConstructComposed(parts) ==
  /\ phase = "constructing"
  /\ router' = createRouter(SpreadAll([i \in DOMAIN parts |->
                                         Bind(Taken(parts[i]), parts[i].options)]))
  /\ built' = parts
  /\ phase' = "serving"
  /\ UNCHANGED <<req, cache, count>>

\* router.handler(request) is entered
Receive(r, input) ==
  /\ phase = "serving"
  /\ req[r].st = "IDLE"
  /\ count.resolved < MaxHandles
  /\ req' = [req EXCEPT ![r] = Fresh(input, "RECEIVED")]
  /\ UNCHANGED <<phase, built, router, cache, count>>

\* the response has been returned: the request's context, validated input and
\* handle are dropped
Finish(r) ==
  /\ req[r].st \in Terminal
  /\ req' = [req EXCEPT ![r] = Fresh(NoRequest, "IDLE")]
  /\ UNCHANGED <<phase, built, router, cache, count>>

\* findRoute: no route answers 404, a route gives the endpoint and its params
Match(r) ==
  /\ req[r].st = "RECEIVED"
  /\ LET k == findRoute(router, req[r].in.method, req[r].in.path)
     IN req' = [req EXCEPT ![r] =
          IF k = 0
          THEN [@ EXCEPT !.st = "NO_MATCH", !.resp = Response(NotFound, Null)]
          ELSE [@ EXCEPT !.st = "ROUTE_MATCHED", !.ep = k,
                         !.params = ParamsOf(router[k], req[r].in.path)]]
  /\ UNCHANGED <<phase, built, router, cache, count>>

\* a mapping that answers every failure alike
toStatusAlike(class) == ServerError

\* the router's mapping of a thrown failure to a status: the validation
\* APIError is a 400, any other Error a 500
toStatus(class) == IF class = "validation" THEN BadRequest ELSE ServerError

Piped(pipe, q) ==
  CASE pipe = "force" -> ForcePipe(q)
    [] pipe = "pageLimit" -> PageLimitPipe(q)
    [] pipe = "pageLimitCurrency" -> PageLimitCurrencyPipe(q)
    [] OTHER -> q

BodyValid(ep, body) == ep.body = NoSchema \/ Conforms(ep.body, body)
QueryValid(ep, query) == ep.query = NoSchema \/ Conforms(ep.query, Obj(query))

\* the endpoint's input validation: the body schema, then the query schema;
\* a failure answers 400 and the handler is not entered
Validate(r) ==
  /\ req[r].st = "ROUTE_MATCHED"
  /\ LET ep == Definition(router[req[r].ep].name)
         input == req[r].in
     IN req' = [req EXCEPT ![r] =
          IF BodyValid(ep, input.body) /\ QueryValid(ep, input.query)
          THEN [@ EXCEPT !.st = "VALIDATED", !.body = input.body,
                         !.query = Piped(ep.pipe, input.query)]
          ELSE [@ EXCEPT !.st = "VALIDATION_FAILED",
                         !.errs = @ \cup {"validation"},
                         !.resp = Response(toStatus("validation"),
                                           Obj([code |-> Str("VALIDATION_ERROR")]))]]
  /\ UNCHANGED <<phase, built, router, cache, count>>


\* the matched endpoint kept in one place for all requests in flight
EndpointOfShared(r) ==
  router[req[CHOOSE o \in DOMAIN req : req[o].ep # 0].ep]

\* the endpoint the router matched for this request
EndpointOf(r) == router[req[r].ep]

\* a || b: the fallback taken for every falsy value, "" included
CoalesceFalsy(a, b) == IF ~Truthy(a) THEN b ELSE a

\* a ?? b
Coalesce(a, b) == IF a.t \in {"undefined", "null"} THEN b ELSE a

\* an Error that leaves router.handler without a response being made
ThrownUncaught(q, st, class) == [q EXCEPT !.st = st, !.errs = @ \cup {class}]

\* an Error thrown by the handler, caught by the router
Thrown(q, st, class) ==
  [q EXCEPT !.st = st, !.errs = @ \cup {class},
            !.resp = Response(toStatus(class), Null)]

\* a result that reports whether there was something to clear
ClearInfoCacheResultIfCached(shop, cached) ==
  Obj([success |-> Bool(shop.domain \in cached)])

\* what clearInfoCache returns after shop.clearInfoCache()
ClearInfoCacheResult(shop, cached) == Obj([success |-> Bool(TRUE)])

Call(cap, shop, args) ==
  [cap |-> cap, domain |-> shop.domain, options |-> shop.options, args |-> args]

\* getStoreSlug / getProductSlug: the domain is the query's, else the
\* header's, else ""; the resolver is not called
InvokeSlug(r) ==
  /\ req[r].st = "VALIDATED"
  /\ EndpointOf(r).name \in SlugHandlers
  /\ LET q == req[r]
         domainInput ==
           Coalesce(Coalesce(Get(q.query, "domain"),
                             HeaderGet(q.in.headers, "x-shop-domain")), Str(""))
         domain == sanitizeDomain(domainInput.s)
         slug == IF EndpointOf(r).name = "getStoreSlug"
                 THEN generateStoreSlug(domain)
                 ELSE genProductSlug(Get(q.query, "handle").s, domain)
     IN req' = [req EXCEPT ![r] =
          [@ EXCEPT !.st = "HANDLED", !.ran = @ \cup {"slug"},
                    !.resp = Response(OK, Obj([slug |-> slug]))]]
  /\ UNCHANGED <<phase, built, router, cache, count>>

\* what fetch and res.text() can settle with
HomePage == Obj([status |-> Num(200)])
Html == Str("<html></html>")

\* detectCountry up to its first await: reads the header itself, throws when
\* it is missing, else sanitizes it and fetches the store's home page
InvokeDetectCountry(r) ==
  /\ req[r].st = "VALIDATED"
  /\ EndpointOf(r).name = "detectCountry"
  /\ LET q == req[r]
         shopDomain == HeaderGet(q.in.headers, "x-shop-domain")
     IN req' = [req EXCEPT ![r] =
          IF ~Truthy(shopDomain)
          THEN Thrown(q, "TENANT_FAILED", "identification")
          ELSE [q EXCEPT !.st = "TENANT_RESOLVED", !.ran = @ \cup {"fetch"},
                         !.calls = Append(@, [cap |-> "fetch",
                                              domain |-> sanitizeDomain(shopDomain.s),
                                              options |-> "none",
                                              args |-> <<Obj([redirect |-> Str("follow")])>>])]]
  /\ UNCHANGED <<phase, built, router, cache, count>>

\* detectCountry after `await fetch(...)`: a rejection is thrown on, a
\* response has its text asked for
DetectCountryFetched(r, o) ==
  /\ req[r].st = "TENANT_RESOLVED"
  /\ EndpointOf(r).name = "detectCountry"
  /\ Len(req[r].calls) = 1
  /\ LET q == req[r]
     IN req' = [req EXCEPT ![r] =
          IF ~o.ok THEN Thrown([q EXCEPT !.out = o], "HANDLER_FAILED", "delegate")
          ELSE [q EXCEPT !.ran = @ \cup {"res.text"},
                         !.calls = Append(@, [cap |-> "res.text",
                                              domain |-> q.calls[1].domain,
                                              options |-> "none", args |-> <<>>])]]
  /\ UNCHANGED <<phase, built, router, cache, count>>

\* detectCountry after `await res.text()`: a rejection is thrown on, the html
\* is handed to detectShopCountry
DetectCountryText(r, o) ==
  /\ req[r].st = "TENANT_RESOLVED"
  /\ EndpointOf(r).name = "detectCountry"
  /\ Len(req[r].calls) = 2
  /\ LET q == req[r]
     IN req' = [req EXCEPT ![r] =
          IF ~o.ok THEN Thrown([q EXCEPT !.out = o], "HANDLER_FAILED", "delegate")
          ELSE [q EXCEPT !.ran = @ \cup {"detectShopCountry"},
                         !.calls = Append(@, [cap |-> "detectShopCountry",
                                              domain |-> q.calls[1].domain,
                                              options |-> "none",
                                              args |-> <<o.value>>])]]
  /\ UNCHANGED <<phase, built, router, cache, count>>

\* the OpenAPI reference page
InvokeOpenApi(r) ==
  /\ req[r].st = "VALIDATED"
  /\ EndpointOf(r).name = "openapi"
  /\ req' = [req EXCEPT ![r] =
       [@ EXCEPT !.st = "HANDLED", !.resp = Response(OK, Str("reference"))]]
  /\ UNCHANGED <<phase, built, router, cache, count>>

Delegating(name) ==
  name \notin SlugHandlers \cup {"detectCountry", "openapi"}

\* every other handler up to its first await: getShop(ctx.headers), then the
\* capability call with the validated input
InvokeDelegate(r) ==
  /\ req[r].st = "VALIDATED"
  /\ Delegating(EndpointOf(r).name)
  /\ EndpointOf(r).name \notin SyncHandlers
  /\ LET q == req[r]
         ep == EndpointOf(r)
         got == Resolve(ep.options, q.in.headers, count)
     IN /\ req' = [req EXCEPT ![r] =
             IF got.threw
             THEN Thrown(q, "TENANT_FAILED", "identification")
             ELSE [q EXCEPT !.st = "TENANT_RESOLVED", !.shop = got.shop,
                            !.calls = Append(@, Call(Capability(ep.name), got.shop,
                                                     Arguments(ep.name, q.params,
                                                               q.query, q.body)))]]
        /\ count' = got.count
  /\ UNCHANGED <<phase, built, router, cache>>

\* clearInfoCache: getShop, shop.clearInfoCache(), return {success: true}
InvokeClearInfoCache(r) ==
  /\ req[r].st = "VALIDATED"
  /\ EndpointOf(r).name = "clearInfoCache"
  /\ LET q == req[r]
         got == Resolve(EndpointOf(r).options, q.in.headers, count)
     IN /\ count' = got.count
        /\ req' = [req EXCEPT ![r] =
             IF got.threw
             THEN Thrown(q, "TENANT_FAILED", "identification")
             ELSE [q EXCEPT !.st = "HANDLED", !.shop = got.shop,
                            !.calls = Append(@, Call("clearInfoCache", got.shop, <<>>)),
                            !.ran = @ \cup {IF got.shop.domain \in cache
                                            THEN "cleared a cached entry"
                                            ELSE "cleared nothing"},
                            !.resp = Response(OK, ClearInfoCacheResult(got.shop, cache))]]
        /\ cache' = IF got.threw THEN cache ELSE cache \ {got.shop.domain}
  /\ UNCHANGED <<phase, built, router>>

\* the strings checkout.createUrl can return
CheckoutUrls == {CheckoutUrl, Str("https://shop.example.com/cart/123:1")}

\* the returned string handed on as it is
CheckoutResultBare(url) == url

\* { url: shop.checkout.createUrl(ctx.body) }
CheckoutResult(url) == Obj([url |-> url])

\* createCheckoutUrl: getShop, return {url: shop.checkout.createUrl(ctx.body)};
\* createUrl returns a string or throws
InvokeCreateCheckoutUrl(r) ==
  /\ req[r].st = "VALIDATED"
  /\ EndpointOf(r).name = "createCheckoutUrl"
  /\ LET q == req[r]
         got == Resolve(EndpointOf(r).options, q.in.headers, count)
     IN \E o \in {Resolved(u) : u \in CheckoutUrls} \cup {Rejected} :
          /\ count' = got.count
          /\ req' = [req EXCEPT ![r] =
            IF got.threw
            THEN Thrown(q, "TENANT_FAILED", "identification")
            ELSE LET called ==
                       [q EXCEPT !.shop = got.shop,
                                 !.calls = Append(@, Call("checkout.createUrl", got.shop,
                                                          <<q.body>>))]
                 IN IF o.ok
                    THEN [called EXCEPT !.st = "HANDLED", !.out = o,
                                        !.resp = Response(OK, CheckoutResult(o.value))]
                    ELSE Thrown([called EXCEPT !.out = o], "HANDLER_FAILED", "delegate")]
  /\ UNCHANGED <<phase, built, router, cache>>

\* a handler that calls the capability once more after a first rejection
SettleRetry(q, name, o) ==
  IF ~o.ok /\ Len(q.calls) < 2
  THEN [q EXCEPT !.calls = Append(@, @[1])]
  ELSE IF ~o.ok THEN Thrown([q EXCEPT !.out = o], "HANDLER_FAILED", "delegate")
  ELSE IF name \in FindHandlers /\ ~Truthy(o.value)
  THEN Thrown([q EXCEPT !.out = o], "HANDLER_FAILED", "not_found")
  ELSE [q EXCEPT !.st = "HANDLED", !.out = o, !.resp = Response(OK, o.value)]

\* a handler that wraps what the capability resolved with
SettleWrapped(q, name, o) ==
  IF ~o.ok THEN Thrown([q EXCEPT !.out = o], "HANDLER_FAILED", "delegate")
  ELSE IF name \in FindHandlers /\ ~Truthy(o.value)
  THEN Thrown([q EXCEPT !.out = o], "HANDLER_FAILED", "not_found")
  ELSE [q EXCEPT !.st = "HANDLED", !.out = o,
                 !.resp = Response(OK, Obj([data |-> o.value]))]

\* a handler that returns whatever the capability resolved with
SettleUnchecked(q, name, o) ==
  IF ~o.ok THEN Thrown([q EXCEPT !.out = o], "HANDLER_FAILED", "delegate")
  ELSE [q EXCEPT !.st = "HANDLED", !.out = o, !.resp = Response(OK, o.value)]

\* the rest of a handler after its await: a rejection is thrown on, a find
\* that resolved with nothing throws "not found", any other result is returned
Settle(q, name, o) ==
  IF ~o.ok THEN Thrown([q EXCEPT !.out = o], "HANDLER_FAILED", "delegate")
  ELSE IF name \in FindHandlers /\ ~Truthy(o.value)
  THEN Thrown([q EXCEPT !.out = o], "HANDLER_FAILED", "not_found")
  ELSE [q EXCEPT !.st = "HANDLED", !.out = o, !.resp = Response(OK, o.value)]

\* the awaited capability settles and the handler finishes
Complete(r, o) ==
  /\ req[r].st = "TENANT_RESOLVED"
  /\ EndpointOf(r).name = "detectCountry" => Len(req[r].calls) = 3
  /\ LET q == req[r]
         name == EndpointOf(r).name
     IN /\ req' = [req EXCEPT ![r] = Settle(q, name, o)]
        /\ cache' = IF name = "getInfo" /\ o.ok /\ Truthy(o.value)
                    THEN cache \cup {q.shop.domain}
                    ELSE cache
  /\ UNCHANGED <<phase, built, router, count>>


\* ------------------------------------- the single-function router (products.ts)

\* the nineteen createEndpoint calls of the single-function betterShop, in the
\* order createRouter is given them
monolithEndpoints ==
  << Endpoint("getInfo", "GET", <<"info">>,
              KObject([force |-> Opt(KString)]), NoSchema, "force"),
     Endpoint("clearInfoCache", "POST", <<"info", "clear-cache">>,
              NoSchema, NoSchema, "none"),
     Endpoint("determineStoreType", "POST", <<"store-type">>, NoSchema,
              KObject([apiKey |-> Opt(KString), model |-> Opt(KString),
                       maxShowcaseProducts |-> Opt(KNumber),
                       maxShowcaseCollections |-> Opt(KNumber)]), "none"),
     Endpoint("getAllProducts", "GET", <<"products", "all">>,
              KObject([currency |-> Opt(KString)]), NoSchema, "none"),
     Endpoint("getPaginatedProducts", "GET", <<"products", "paginated">>,
              KObject([page |-> Opt(KStringOrNumber),
                       limit |-> Opt(KStringOrNumber),
                       currency |-> Opt(KString)]), NoSchema, "pageLimitCurrency"),
     Endpoint("getShowcasedProducts", "GET", <<"products", "showcased">>,
              NoSchema, NoSchema, "none"),
     Endpoint("getProductFilters", "GET", <<"products", "filters">>,
              NoSchema, NoSchema, "none"),
     Endpoint("getProduct", "GET", <<"products", H>>,
              KObject([currency |-> Opt(KString)]), NoSchema, "none"),
     Endpoint("getEnrichedProduct", "POST", <<"products", H, "enriched">>, NoSchema,
              KObject([apiKey |-> Opt(KString), useGfm |-> Opt(KBoolean),
                       inputType |-> Opt(KEnum({"markdown", "html"})),
                       model |-> Opt(KString),
                       outputFormat |-> Opt(KEnum({"markdown", "json"}))]), "none"),
     Endpoint("classifyProduct", "POST", <<"products", H, "classify">>, NoSchema,
              KObject([apiKey |-> Opt(KString), model |-> Opt(KString)]), "none"),
     Endpoint("generateProductSEO", "POST", <<"products", H, "seo">>, NoSchema,
              KObject([apiKey |-> Opt(KString), model |-> Opt(KString)]), "none"),
     Endpoint("getAllCollections", "GET", <<"collections", "all">>,
              NoSchema, NoSchema, "none"),
     Endpoint("getPaginatedCollections", "GET", <<"collections", "paginated">>,
              KObject([page |-> Opt(KStringOrNumber),
                       limit |-> Opt(KStringOrNumber)]), NoSchema, "pageLimit"),
     Endpoint("getShowcasedCollections", "GET", <<"collections", "showcased">>,
              NoSchema, NoSchema, "none"),
     Endpoint("getCollection", "GET", <<"collections", H>>,
              NoSchema, NoSchema, "none"),
     Endpoint("getCollectionProductsAll", "GET",
              <<"collections", H, "products", "all">>,
              KObject([currency |-> Opt(KString)]), NoSchema, "none"),
     Endpoint("getCollectionProductsPaginated", "GET",
              <<"collections", H, "products", "paginated">>,
              KObject([page |-> Opt(KStringOrNumber),
                       limit |-> Opt(KStringOrNumber),
                       currency |-> Opt(KString)]), NoSchema, "pageLimitCurrency"),
     Endpoint("getCollectionProductSlugs", "GET", <<"collections", H, "slugs">>,
              NoSchema, NoSchema, "none"),
     Endpoint("createCheckoutUrl", "POST", <<"checkout", "url">>, NoSchema,
              KObject([email |-> Req(KEmail),
                       items |-> Req(KArray(KObject(
                         [productVariantId |-> Req(KString),
                          quantity |-> Req(KString)]))),
                       address |-> Req(KObject(
                         [firstName |-> Req(KString), lastName |-> Req(KString),
                          address1 |-> Req(KString), city |-> Req(KString),
                          zip |-> Req(KString), country |-> Req(KString),
                          province |-> Req(KString), phone |-> Req(KString)]))]),
              "none") >>

\* its own getShop closure
monolithGetShop(options, headers) ==
  LET domain == HeaderGet(headers, "x-shop-domain")
  IN IF ~Truthy(domain)
     THEN [threw |-> TRUE, shop |-> Null]
     ELSE [threw |-> FALSE, shop |-> ShopClient(domain.s, options)]

\* createRouter({ getInfo, ..., createCheckoutUrl }) without a config
monolithBetterShop(options) == createRouter(Bind(monolithEndpoints, options))

\* a router whose query schemas carry no morph
monolithPipeNone(name, q) == q

\* the .pipe() morph each of its query schemas carries
monolithPipe(name, q) ==
  LET page == IF Truthy(Get(q, "page")) THEN NumberJS(Get(q, "page")) ELSE Undef
      limit == IF Truthy(Get(q, "limit")) THEN NumberJS(Get(q, "limit")) ELSE Undef
  IN CASE name = "getInfo" -> [force |-> Bool(Get(q, "force") = Str("true"))]
       [] name \in {"getPaginatedProducts", "getCollectionProductsPaginated"} ->
            [page |-> page, limit |-> limit, currency |-> Get(q, "currency")]
       [] name = "getPaginatedCollections" -> [page |-> page, limit |-> limit]
       [] OTHER -> q

\* the capability each of its handlers calls on the handle, with its arguments
monolithCall(name, shop, params, query, body) ==
  LET handle == Get(params, "handle")
      currency == Obj([currency |-> Get(query, "currency")])
      call(cap, args) ==
        [cap |-> cap, domain |-> shop.domain, options |-> shop.options,
         args |-> args]
  IN CASE name = "getInfo" -> call("getInfo", <<Obj([force |-> Get(query, "force")])>>)
       [] name = "clearInfoCache" -> call("clearInfoCache", <<>>)
       [] name = "determineStoreType" -> call("determineStoreType", <<body>>)
       [] name = "getAllProducts" -> call("products.all", <<currency>>)
       [] name = "getPaginatedProducts" ->
            call("products.paginated",
                 <<Obj([page |-> Get(query, "page"), limit |-> Get(query, "limit"),
                        currency |-> Get(query, "currency")])>>)
       [] name = "getShowcasedProducts" -> call("products.showcased", <<>>)
       [] name = "getProductFilters" -> call("products.filter", <<>>)
       [] name = "getProduct" -> call("products.find", <<handle, currency>>)
       [] name = "getEnrichedProduct" -> call("products.enriched", <<handle, body>>)
       [] name = "classifyProduct" -> call("products.classify", <<handle, body>>)
       [] name = "generateProductSEO" ->
            call("products.generateSEOContent", <<handle, body>>)
       [] name = "getAllCollections" -> call("collections.all", <<>>)
       [] name = "getPaginatedCollections" ->
            call("collections.paginated",
                 <<Obj([page |-> Get(query, "page"), limit |-> Get(query, "limit")])>>)
       [] name = "getShowcasedCollections" -> call("collections.showcased", <<>>)
       [] name = "getCollection" -> call("collections.find", <<handle>>)
       [] name = "getCollectionProductsAll" ->
            call("collections.products.all", <<handle, currency>>)
       [] name = "getCollectionProductsPaginated" ->
            call("collections.products.paginated",
                 <<handle,
                   Obj([page |-> Get(query, "page"), limit |-> Get(query, "limit"),
                        currency |-> Get(query, "currency")])>>)
       [] name = "getCollectionProductSlugs" ->
            call("collections.products.slugs", <<handle>>)
       [] name = "createCheckoutUrl" -> call("checkout.createUrl", <<body>>)

\* what each of its handlers does with the capability's outcome o: the value
\* returned, or an Error thrown
monolithResult(name, o) ==
  CASE name = "clearInfoCache" ->
         [threw |-> FALSE, value |-> Obj([success |-> Bool(TRUE)])]
    [] name = "createCheckoutUrl" ->
         IF o.ok THEN [threw |-> FALSE, value |-> Obj([url |-> o.value])]
         ELSE [threw |-> TRUE, value |-> Undef]
    [] name \in {"getProduct", "getCollection"} ->
         IF o.ok /\ Truthy(o.value) THEN [threw |-> FALSE, value |-> o.value]
         ELSE [threw |-> TRUE, value |-> Undef]
    [] OTHER ->
         IF o.ok THEN [threw |-> FALSE, value |-> o.value]
         ELSE [threw |-> TRUE, value |-> Undef]

\* its router.handler on one request, the capability settling with o: the
\* response and the capability calls made
monolithHandler(options, input, o) ==
  LET table == monolithBetterShop(options)
      k == findRoute(table, input.method, input.path)
      name == table[k].name
      ep == monolithEndpoints[CHOOSE i \in DOMAIN monolithEndpoints :
                                monolithEndpoints[i].name = name]
      valid == /\ ep.body = NoSchema \/ Conforms(ep.body, input.body)
               /\ ep.query = NoSchema \/ Conforms(ep.query, Obj(input.query))
      got == monolithGetShop(options, input.headers)
      result == monolithResult(name, o)
  IN IF k = 0 THEN [resp |-> Response(NotFound, Null), calls |-> <<>>]
     ELSE IF name = "openapi"
     THEN [resp |-> Response(OK, Str("reference")), calls |-> <<>>]
     ELSE IF ~valid
     THEN [resp |-> Response(BadRequest, Obj([code |-> Str("VALIDATION_ERROR")])),
           calls |-> <<>>]
     ELSE IF got.threw THEN [resp |-> Response(ServerError, Null), calls |-> <<>>]
     ELSE [resp |-> IF result.threw THEN Response(ServerError, Null)
                    ELSE Response(OK, result.value),
           calls |-> <<monolithCall(name, got.shop, ParamsOf(table[k], input.path),
                                    monolithPipe(name, input.query), input.body)>>]

\* ------------------------------------------------------- request inputs

Methods == {"GET", "POST"}
Handles == {"exists", "missing"}

LiteralPaths ==
  { <<"info">>, <<"info", "clear-cache">>, <<"store-type">>,
    <<"products", "all">>, <<"products", "paginated">>,
    <<"products", "showcased">>, <<"products", "filters">>,
    <<"collections", "all">>, <<"collections", "paginated">>,
    <<"collections", "showcased">>, <<"checkout", "url">>,
    <<"utils", "detect-country">>, <<"utils", "store-slug">>,
    <<"utils", "product-slug">>, <<"api", "reference">>, <<"nowhere">> }

HandlePaths ==
  UNION { { <<"products", h>>, <<"products", h, "enriched">>,
            <<"products", h, "classify">>, <<"products", h, "seo">>,
            <<"collections", h>>, <<"collections", h, "products", "all">>,
            <<"collections", h, "products", "paginated">>,
            <<"collections", h, "slugs">> } : h \in Handles }

Paths == LiteralPaths \cup HandlePaths

NoHeaders == <<>>
WithDomain(v) == [name \in {"x-shop-domain"} |-> v]
HeaderSets == {NoHeaders, WithDomain(Str(""))} \cup {WithDomain(Str(d)) : d \in Domains}

Request(method, path, headers, query, body) ==
  [method |-> method, path |-> path, headers |-> headers, query |-> query,
   body |-> body]

EmptyObject == Obj(<<>>)

\* every method and path, with no query and no or an empty body
BasicRequests ==
  {Request("GET", p, h, <<>>, Undef) : p \in Paths, h \in HeaderSets}
  \cup {Request("POST", p, h, <<>>, b) :
          p \in Paths, h \in HeaderSets, b \in {Undef, EmptyObject}}

Alphabet == Digits \cup {"a"}
Texts == UNION {[1..n -> Alphabet] : n \in 0..MaxLen}
PageValues == {Chars(c) : c \in Texts} \cup {Num(0), Num(2)}
Two == Chars(<<"2">>)
Ten == Chars(<<"1", "0">>)
USD == Str("USD")

PageQueries ==
  {[page |-> v] : v \in PageValues} \cup {[limit |-> v] : v \in PageValues}
  \cup {[page |-> v, limit |-> Ten] : v \in {Two, Chars(<<"a">>), Num(0)}}
  \cup {[page |-> Two, limit |-> Ten, currency |-> USD], [currency |-> USD],
        [page |-> Bool(TRUE)], [limit |-> Two, currency |-> Num(1)]}

PaginatedPaths ==
  { <<"products", "paginated">>, <<"collections", "paginated">>,
    <<"collections", "exists", "products", "paginated">> }

FewHeaders == {NoHeaders, WithDomain(Str("mock.myshopify.com"))}

PaginatedRequests ==
  {Request("GET", p, h, q, Undef) : p \in PaginatedPaths, h \in FewHeaders, q \in PageQueries}

QueryRequests ==
  {Request("GET", <<"info">>, h, [force |-> v], Undef) :
     h \in FewHeaders, v \in {Str("true"), Str("false"), Str("1"), Str(""), Num(1)}}
  \cup {Request("GET", p, h, [currency |-> v], Undef) :
          p \in { <<"products", "all">>, <<"products", "exists">>,
                  <<"collections", "exists", "products", "all">> },
          h \in FewHeaders, v \in {USD, Num(1)}}
  \cup {Request("GET", <<"utils", "store-slug">>, h, q, Undef) :
          h \in HeaderSets,
          q \in {[domain |-> Str("Shop.Example.com")], [domain |-> Str("")],
                 [domain |-> Num(1)]}}
  \cup {Request("GET", <<"utils", "product-slug">>, h, q, Undef) :
          h \in HeaderSets,
          q \in {[handle |-> Str("cool-shirt")],
                 [handle |-> Str("cool-shirt"), domain |-> Str("Shop.Example.com")],
                 [domain |-> Str("Shop.Example.com")], [handle |-> Num(1)]}}

OptionBodies ==
  { Obj([model |-> Str("gpt-4o-mini")]), Obj([apiKey |-> Num(1)]),
    Obj([maxShowcaseProducts |-> Num(3)]), Obj([maxShowcaseProducts |-> Str("3")]),
    Obj([useGfm |-> Bool(TRUE), inputType |-> Str("markdown")]),
    Obj([useGfm |-> Str("yes")]), Obj([outputFormat |-> Str("pdf")]),
    Arr(<<>>) }

BodyRequests ==
  {Request("POST", p, h, <<>>, b) :
     p \in { <<"store-type">>, <<"products", "exists", "enriched">>,
             <<"products", "exists", "classify">>, <<"products", "exists", "seo">> },
     h \in FewHeaders, b \in OptionBodies}

GoodEmail == Chars(<<"a", "@", "a", ".", "a", "a">>)
Emails ==
  { GoodEmail, Chars(<<"a", "@", "a", ".", "a">>), Chars(<<"a", "-", "a">>),
    Chars(<<"@", "a", ".", "a", "a">>), Num(1) }

GoodItem == Obj([productVariantId |-> Str("123"), quantity |-> Str("1")])
ItemLists ==
  { Arr(<<GoodItem>>), Arr(<<>>), Arr(<<GoodItem, GoodItem>>),
    Arr(<<Obj([productVariantId |-> Str("123"), quantity |-> Num(1)])>>),
    Arr(<<Obj([productVariantId |-> Str("123")])>>), Str("123") }

GoodAddress ==
  Obj([firstName |-> Str("John"), lastName |-> Str("Doe"),
       address1 |-> Str("123 St"), city |-> Str("City"), zip |-> Str("12345"),
       country |-> Str("US"), province |-> Str("CA"), phone |-> Str("1234567890")])
Addresses ==
  { GoodAddress,
    Obj([firstName |-> Str("John"), lastName |-> Str("Doe"),
         address1 |-> Str("123 St"), city |-> Str("City"), zip |-> Str("12345"),
         country |-> Str("US"), province |-> Str("CA")]),
    Obj([firstName |-> Str("John"), lastName |-> Str("Doe"),
         address1 |-> Str("123 St"), city |-> Str("City"), zip |-> Num(12345),
         country |-> Str("US"), province |-> Str("CA"), phone |-> Str("1234567890")]),
    Str("123 St") }

CheckoutBodies ==
  {Obj([email |-> e, items |-> i, address |-> a]) :
     e \in Emails, i \in ItemLists, a \in Addresses}
  \cup {Obj([email |-> e, items |-> i]) : e \in Emails, i \in ItemLists}
  \cup {Obj([items |-> i, address |-> a]) : i \in ItemLists, a \in Addresses}
  \cup {Obj([email |-> e, address |-> a]) : e \in Emails, a \in Addresses}

CheckoutRequests ==
  {Request("POST", <<"checkout", "url">>, h, <<>>, b) :
     h \in FewHeaders, b \in CheckoutBodies}

Requests ==
  BasicRequests \cup PaginatedRequests \cup QueryRequests \cup BodyRequests
  \cup CheckoutRequests

\* ------------------------------------------------------- specification

\* the router of all five builders, bound to one resolver
AllBuilders(options) == [i \in DOMAIN BuilderOrder |-> Part(BuilderOrder[i], options)]

Next ==
  \/ ConstructBetterShop
  \/ \E options \in Options : ConstructComposed(AllBuilders(options))
  \/ \E a, b \in Options : ConstructComposed(<<Part("store", a), Part("store", b)>>)
  \/ \E r \in Rids :
       \/ \E input \in Requests : Receive(r, input)
       \/ Match(r)
       \/ Validate(r)
       \/ InvokeSlug(r)
       \/ InvokeDetectCountry(r)
       \/ DetectCountryFetched(r, Resolved(HomePage)) \/ DetectCountryFetched(r, Rejected)
       \/ DetectCountryText(r, Resolved(Html)) \/ DetectCountryText(r, Rejected)
       \/ InvokeOpenApi(r)
       \/ InvokeDelegate(r)
       \/ InvokeClearInfoCache(r)
       \/ InvokeCreateCheckoutUrl(r)
       \/ \E o \in Outcomes : Complete(r, o)
       \/ Finish(r)

Spec == Init /\ [][Next]_vars

\* ---------------------------------------- routers composed from some builders

\* the endpoints named, taken out of their builders' outputs in the order of
\* betterShop, all bound to one resolver
PartsOf(names, options) ==
  SelectSeq([i \in DOMAIN BuilderOrder |->
               Picked(BuilderOrder[i], NamesOf(BuilderOrder[i]) \cap names, options)],
            LAMBDA p : p.names # {})

\* what a router is composed of: the whole output of some builders, or one or
\* two single endpoints
Compositions ==
  {UNION {NamesOf(b) : b \in chosen} : chosen \in SUBSET Builders}
  \cup {{a, b} : a, b \in UNION {NamesOf(c) : c \in Builders}}

GoodCheckout ==
  Request("POST", <<"checkout", "url">>, WithDomain(Str("mock.myshopify.com")),
          <<>>, Obj([email |-> GoodEmail, items |-> Arr(<<GoodItem>>),
                     address |-> GoodAddress]))

\* every method and path, without and with the tenant header
ComposedRequests ==
  {i \in BasicRequests : i.headers \in FewHeaders} \cup {GoodCheckout}

NextComposed ==
  \/ \E names \in Compositions, options \in Options :
       ConstructComposed(PartsOf(names, options))
  \/ \E r \in Rids :
       \/ \E input \in ComposedRequests : Receive(r, input)
       \/ Match(r)
       \/ Validate(r)
       \/ InvokeSlug(r)
       \/ InvokeDetectCountry(r)
       \/ DetectCountryFetched(r, Resolved(HomePage)) \/ DetectCountryFetched(r, Rejected)
       \/ DetectCountryText(r, Resolved(Html)) \/ DetectCountryText(r, Rejected)
       \/ InvokeOpenApi(r)
       \/ InvokeDelegate(r)
       \/ InvokeClearInfoCache(r)
       \/ InvokeCreateCheckoutUrl(r)
       \/ \E o \in Outcomes : Complete(r, o)
       \/ Finish(r)

SpecComposed == Init /\ [][NextComposed]_vars

\* ------------------------------------------------ requests in flight together

\* two calls of router.handler whose handlers interleave at their awaits
Slots == {"r1", "r2"}

InitConcurrent ==
  /\ phase = "constructing"
  /\ built = <<>>
  /\ router = <<>>
  /\ req = [r \in Slots |-> Fresh(NoRequest, "IDLE")]
  /\ cache = {}
  /\ count = [resolved |-> 0, made |-> 0]

Mock == WithDomain(Str("mock.myshopify.com"))
Example == WithDomain(Str("Shop.Example.com"))

ConcurrentRequests ==
  { Request("GET", <<"info">>, Mock, <<>>, Undef),
    Request("GET", <<"info">>, Example, [force |-> Str("true")], Undef),
    Request("GET", <<"info">>, NoHeaders, <<>>, Undef),
    Request("GET", <<"products", "paginated">>, Mock, [page |-> Two, limit |-> Ten], Undef),
    Request("GET", <<"products", "paginated">>, Example, [limit |-> Two], Undef),
    Request("GET", <<"products", "missing">>, Example, [currency |-> USD], Undef),
    Request("POST", <<"info", "clear-cache">>, Mock, <<>>, Undef) }

NextConcurrent ==
  \/ ConstructBetterShop
  \/ \E r \in Slots :
       \/ \E input \in ConcurrentRequests : Receive(r, input)
       \/ Match(r)
       \/ Validate(r)
       \/ InvokeDelegate(r)
       \/ InvokeClearInfoCache(r)
       \/ \E o \in Outcomes : Complete(r, o)
       \/ Finish(r)

SpecConcurrent == InitConcurrent /\ [][NextConcurrent]_vars

\* ==================================================================== claims

HasHeader(q) == "x-shop-domain" \in DOMAIN q.in.headers
HeaderValue(q) == HeaderGet(q.in.headers, "x-shop-domain")
NameOf(q) == router[q.ep].name
BuilderOperation(q) == q.ep # 0 /\ NameOf(q) # "openapi"
NoHandlerLogic(q) == q.calls = <<>> /\ q.ran = {} /\ q.shop = Null
PastValidation(q) == q.ep # 0 /\ q.st \notin {"RECEIVED", "ROUTE_MATCHED"}

\* whether the request's query and body satisfy the schemas of its operation
InputValid(q) ==
  /\ BodyValid(Definition(NameOf(q)), q.in.body)
  /\ QueryValid(Definition(NameOf(q)), q.in.query)

\* C1, for the requests whose input is valid (an invalid input is answered
\* 400 by validation, which precedes every handler): every request without
\* the x-shop-domain header that reaches an operation of the endpoint
\* builders is answered 500 and no handler logic (capability call, slug
\* computation, fetch) has run for it.
C1_MissingHeaderAlways500 ==
  \A r \in Rids :
    LET q == req[r]
    IN (q.st \in Terminal /\ BuilderOperation(q) /\ ~HasHeader(q)
        /\ InputValid(q))
       => q.resp.status = ServerError /\ NoHandlerLogic(q)

\* a value with a defect against a schema: a required field that is missing,
\* a value of another type than the schema names (at any depth: a field of
\* the address, an element of items, the body itself), a string outside the
\* declared enum, an email that is not one. An array handed to an object
\* schema counts where the schema requires a field, which an array lacks.
RECURSIVE Defective(_, _)
Defective(kind, v) ==
  CASE kind.k = "none" -> FALSE
    [] kind.k = "object" ->
         IF v.t = "array" THEN \E key \in DOMAIN kind.fields : kind.fields[key].req
         ELSE IF v.t # "object" THEN TRUE
         ELSE \E key \in DOMAIN kind.fields :
                IF key \in DOMAIN v.f
                THEN Defective(kind.fields[key].kind, v.f[key])
                ELSE kind.fields[key].req
    [] kind.k = "array" ->
         v.t # "array" \/ \E i \in 1..Len(v.a) : Defective(kind.of, v.a[i])
    [] kind.k = "enum" ->
         v.t # "string" \/ ("s" \in DOMAIN v /\ v.s \notin kind.vals)
    [] kind.k = "string.email" ->
         v.t # "string" \/ ("c" \in DOMAIN v /\ ~IsEmail(v.c))
    [] kind.k = "string|number" -> v.t \notin {"string", "number"} \/ v = NaN
    [] kind.k = "number" -> v.t # "number" \/ v = NaN
    [] OTHER -> v.t # kind.k

\* what remains of C1 apart from the two slug operations: a request with valid
\* input and no usable x-shop-domain header is answered 500 with no handler
\* logic run
C1_MissingHeaderElsewhere500 ==
  \A r \in Rids :
    LET q == req[r]
    IN (q.st \in Terminal /\ BuilderOperation(q) /\ ~Truthy(HeaderValue(q))
        /\ InputValid(q) /\ NameOf(q) \notin SlugHandlers)
       => q.resp.status = ServerError /\ NoHandlerLogic(q)

\* C2: on an operation with an input schema, a request whose query or body
\* misses a required field, has a field of the wrong type or fails a format
\* check is answered 400, and neither the handler nor a capability has run.
C2_InvalidInputIs400 ==
  \A r \in Rids :
    LET q == req[r]
    IN (PastValidation(q)
        /\ (\/ Defective(Definition(NameOf(q)).body, q.in.body)
            \/ Defective(Definition(NameOf(q)).query, Obj(q.in.query))))
       => /\ q.st = "VALIDATION_FAILED"
          /\ q.resp.status = BadRequest
          /\ NoHandlerLogic(q)

\* the payload of the repository's test: an email that is none, no items
C2_Witness ==
  \E r \in Rids :
    /\ req[r].st = "VALIDATION_FAILED"
    /\ NameOf(req[r]) = "createCheckoutUrl"
    /\ req[r].in.body = Obj([email |-> Chars(<<"a", "-", "a">>), items |-> Arr(<<>>)])
    /\ req[r].resp.status = BadRequest

\* a defect below the top level: a valid email and item, an address without
\* its phone
C2_WitnessNested ==
  \E r \in Rids :
    /\ req[r].st = "VALIDATION_FAILED"
    /\ NameOf(req[r]) = "createCheckoutUrl"
    /\ req[r].in.body.t = "object"
    /\ DOMAIN req[r].in.body.f = {"email", "items", "address"}
    /\ req[r].in.body.f.email = GoodEmail
    /\ req[r].in.body.f.items = Arr(<<GoodItem>>)
    /\ req[r].in.body.f.address.t = "object"
    /\ "phone" \notin DOMAIN req[r].in.body.f.address.f
    /\ req[r].resp.status = BadRequest

\* a text outside the enumeration of outputFormat
C2_WitnessEnum ==
  \E r \in Rids :
    /\ req[r].st = "VALIDATION_FAILED"
    /\ req[r].in.body = Obj([outputFormat |-> Str("pdf")])
    /\ Defective(Definition(NameOf(req[r])).body, req[r].in.body)
    /\ req[r].resp.status = BadRequest

\* no body at all where the operation declares a body schema
C2_WitnessNoBody ==
  \E r \in Rids :
    /\ req[r].st = "VALIDATION_FAILED"
    /\ req[r].in.body = Undef
    /\ Defective(Definition(NameOf(req[r])).body, req[r].in.body)
    /\ req[r].resp.status = BadRequest

\* C3 as stated: POST /checkout/url with a valid email, a complete address
\* and items = [] is answered 400 and checkout.createUrl is not called.
C3_EmptyItemsRejected ==
  \A r \in Rids :
    LET q == req[r]
    IN (q.st \in Terminal /\ q.ep # 0 /\ NameOf(q) = "createCheckoutUrl"
        /\ q.in.body = Obj([email |-> GoodEmail, items |-> Arr(<<>>),
                            address |-> GoodAddress]))
       => q.resp.status = BadRequest /\ q.calls = <<>>

Absent(v) == v \in {Null, Undef}
Settled(q) == q.out # Null

\* C4: on GET /products/:handle and GET /collections/:handle, a find that
\* resolves with null or undefined is answered 500, a find that resolves with
\* an entity is answered 200 with that entity, and no 200 has an absent body.
C4_FindAbsentIs500 ==
  \A r \in Rids :
    LET q == req[r]
    IN (q.st \in Terminal /\ q.ep # 0 /\ NameOf(q) \in FindHandlers)
       => /\ (Settled(q) /\ q.out.ok) =>
               IF Absent(q.out.value)
               THEN q.resp.status = ServerError /\ q.st = "HANDLER_FAILED"
               ELSE q.resp = Response(OK, q.out.value)
          /\ ~(q.resp.status = OK /\ Absent(q.resp.body))

\* GET /products/missing, the capability resolved with null, answered 500
C4_Witness ==
  \E r \in Rids :
    /\ req[r].st = "HANDLER_FAILED"
    /\ NameOf(req[r]) = "getProduct"
    /\ req[r].in.path = <<"products", "missing">>
    /\ req[r].out = Resolved(Null)
    /\ req[r].resp.status = ServerError

PaginatedHandlers ==
  {"getPaginatedProducts", "getPaginatedCollections", "getCollectionProductsPaginated"}

Last(seq) == seq[Len(seq)]

\* the number a text of decimal digits denotes, read from its first digit on
RECURSIVE Denotes(_, _)
Denotes(c, acc) ==
  IF c = <<>> THEN acc
  ELSE Denotes(Tail(c), 10 * acc + (CHOOSE n \in 0..9 : ToString(n) = Head(c)))

IsDigitText(v) ==
  /\ v.t = "string" /\ "c" \in DOMAIN v /\ v.c # <<>>
  /\ \A i \in 1..Len(v.c) : \E n \in 0..9 : ToString(n) = v.c[i]

\* C5: on the three paginated operations a page or limit given as a text of
\* decimal digits reaches the capability's paginated call as the number of
\* that value, not as a string.
C5_DigitsArriveAsNumbers ==
  \A r \in Rids :
    LET q == req[r]
    IN (q.calls # <<>> /\ NameOf(q) \in PaginatedHandlers)
       => \A key \in {"page", "limit"} :
            (key \in DOMAIN q.in.query /\ IsDigitText(q.in.query[key]))
            => Last(q.calls[1].args).f[key] = Num(Denotes(q.in.query[key].c, 0))

\* ?page=2&limit=10 has been delivered as 2 and 10
C5_Witness ==
  \E r \in Rids :
    /\ req[r].calls # <<>>
    /\ req[r].calls[1].cap = "products.paginated"
    /\ req[r].in.query = [page |-> Two, limit |-> Ten]
    /\ req[r].calls[1].args[1].f.page = Num(2)
    /\ req[r].calls[1].args[1].f.limit = Num(10)

QueryHandlers ==
  PaginatedHandlers
  \cup {"getInfo", "getAllProducts", "getProduct", "getCollectionProductsAll"}

\* the options object a handler passes to its capability
OptionsPassed(q) == Last(q.calls[1].args).f

\* C6 as stated: an optional query parameter (page, limit, force, currency)
\* that the request omits reaches the capability as undefined.
C6_OmittedIsUndefined ==
  \A r \in Rids :
    LET q == req[r]
    IN (q.calls # <<>> /\ NameOf(q) \in QueryHandlers)
       => \A key \in {"page", "limit", "force", "currency"} :
            (key \in DOMAIN OptionsPassed(q) /\ key \notin DOMAIN q.in.query)
            => OptionsPassed(q)[key] = Undef

\* C6 amended: an omitted page, limit or currency reaches the capability as
\* undefined; an omitted force reaches getInfo as false.
C6_OmittedPassThrough ==
  \A r \in Rids :
    LET q == req[r]
    IN (q.calls # <<>> /\ NameOf(q) \in QueryHandlers)
       => \A key \in {"page", "limit", "force", "currency"} :
            (key \in DOMAIN OptionsPassed(q) /\ key \notin DOMAIN q.in.query)
            => OptionsPassed(q)[key] = IF key = "force" THEN Bool(FALSE) ELSE Undef

\* GET /products/paginated without a query has called the capability with
\* page, limit and currency undefined
C6_Witness ==
  \E r \in Rids :
    /\ req[r].calls # <<>>
    /\ req[r].calls[1].cap = "products.paginated"
    /\ req[r].in.query = <<>>
    /\ req[r].calls[1].args = <<Obj([page |-> Undef, limit |-> Undef, currency |-> Undef])>>

IsBetterShop == \E options \in Options : router = betterShop(options)

\* the route table: the operations of the five builders
RouteTable == Definitions \ {OpenApiEndpoint}

InRouteTable(method, path) ==
  \E e \in RouteTable :
    /\ e.method = method
    /\ Len(e.path) = Len(path)
    /\ \A i \in DOMAIN path : SegmentMatches(e.path[i], path[i])

\* C7 as stated: the router betterShop() returns dispatches every method and
\* path of the route table, the three /utils routes among them, and answers
\* GET /utils/store-slug?domain=D with the header by 200 and the slug of D.
C7_BetterShopServesRouteTable ==
  \A r \in Rids :
    LET q == req[r]
    IN (IsBetterShop /\ q.st \in Terminal
        /\ InRouteTable(q.in.method, q.in.path))
       => /\ q.st # "NO_MATCH"
          /\ (/\ q.in.path = <<"utils", "store-slug">>
              /\ Truthy(HeaderValue(q))
              /\ "domain" \in DOMAIN q.in.query
              /\ IsStr(q.in.query.domain))
             => q.resp = Response(OK, Obj([slug |-> generateStoreSlug(
                                     sanitizeDomain(q.in.query.domain.s))]))

\* whether two of the merged builder outputs define the same method and path
Colliding(parts) ==
  \E i, j \in DOMAIN parts :
    /\ i < j
    /\ \E a \in Range(Taken(parts[i])), b \in Range(Taken(parts[j])) :
         a.method = b.method /\ a.path = b.path

\* C8 as stated: merging builder outputs in which two operations have the
\* same method and path fails when the router is constructed, so no such
\* merge is ever serving.
C8_CollidingMergeNeverServes == phase = "serving" => ~Colliding(built)

FailureClasses == {"identification", "validation", "domain"}

FailureClass(e) ==
  CASE e = "identification" -> "identification"
    [] e = "validation" -> "validation"
    [] e \in {"delegate", "not_found"} -> "domain"

ClassesOf(q) == {FailureClass(e) : e \in q.errs}

StatusOfClass(c) == toStatus(IF c = "domain" THEN "delegate" ELSE c)

\* C10 as stated: the three failure classes are pairwise disjoint and each is
\* answered with a status that neither of the other two is answered with.
C10_ClassesHaveDistinctStatuses ==
  \A r \in Rids :
    LET q == req[r]
    IN (q.st \in Terminal /\ q.errs # {})
       => /\ Cardinality(ClassesOf(q)) = 1
          /\ \A c \in FailureClasses \ ClassesOf(q) : q.resp.status # StatusOfClass(c)

\* C10 amended: a failed request is of exactly one of the three classes;
\* an input-validation failure is answered 400, an identification failure
\* and a domain (delegate or not-found) failure are both answered 500.
C10_ClassesAndStatuses ==
  \A r \in Rids :
    LET q == req[r]
    IN q.st \in Terminal
       => /\ (q.errs # {}) = (q.st \in {"VALIDATION_FAILED", "TENANT_FAILED", "HANDLER_FAILED"})
          /\ q.errs # {} =>
               /\ Cardinality(ClassesOf(q)) = 1
               /\ ClassesOf(q) = {"validation"}
                    => q.st = "VALIDATION_FAILED" /\ q.resp.status = BadRequest
               /\ ClassesOf(q) = {"identification"}
                    => q.st = "TENANT_FAILED" /\ q.resp.status = ServerError
               /\ ClassesOf(q) = {"domain"}
                    => q.st = "HANDLER_FAILED" /\ q.resp.status = ServerError
          /\ q.resp.status = BadRequest => ClassesOf(q) = {"validation"}

\* a request whose capability rejected has been answered 500
C10_Witness ==
  \E r \in Rids :
    /\ req[r].st = "HANDLER_FAILED"
    /\ req[r].errs = {"delegate"}
    /\ req[r].out = Rejected
    /\ req[r].resp.status = ServerError

\* C11: every failure thrown in a handler or in the tenant resolver ends the
\* request with a serialized error response: a request has a response exactly
\* when it is terminal, a failed request is terminal with an error status, and
\* a response once made is never replaced by another for the same request.
C11_EveryFailureAnswered ==
  /\ [](\A r \in DOMAIN req :
          LET q == req[r]
          IN /\ (q.st \in Terminal) = (q.resp # Null)
             /\ q.errs # {} => /\ q.st \in Terminal
                               /\ q.resp.status \in {BadRequest, ServerError})
  /\ [][\A r \in DOMAIN req :
          req[r].resp # Null => (req'[r].resp = req[r].resp \/ req'[r].st = "IDLE")]_vars

\* the resolver threw inside the clearInfoCache handler and the request was
\* answered with an error response
C11_Witness ==
  \E r \in DOMAIN req :
    /\ req[r].st = "TENANT_FAILED"
    /\ NameOf(req[r]) = "clearInfoCache"
    /\ req[r].errs = {"identification"}
    /\ req[r].resp = Response(ServerError, Null)

\* the handler of this request has called the resolver
ResolverCalled(q) ==
  /\ q.ep # 0 /\ Delegating(NameOf(q))
  /\ q.st \in {"TENANT_RESOLVED", "TENANT_FAILED", "HANDLED", "HANDLER_FAILED"}

\* C12 as stated: a handle is constructed by every resolver call, so that the
\* handles constructed are as many as the calls: every request whose handler
\* has called the resolver holds a handle of its own.
C12_EveryCallBuildsAHandle ==
  \A r \in DOMAIN req :
    ResolverCalled(req[r]) =>
      /\ req[r].shop # Null
      /\ \A o \in DOMAIN req \ {r} : req[o].shop # req[r].shop

\* C12 amended: every resolver call that returns has constructed a new
\* handle and a call that throws has constructed none: the instances
\* constructed are as many as the calls returned, a handle a request obtains
\* was never issued before, two requests never hold the same one, and a
\* request ended by the resolver's error holds none and leaves the tally of
\* instances as it was.
C12_FreshHandlePerCall ==
  /\ [](/\ count.made = count.resolved
        /\ \A r \in DOMAIN req :
             /\ req[r].shop # Null =>
                  /\ req[r].shop.id \in 1..count.made
                  /\ \A o \in DOMAIN req \ {r} :
                       req[o].shop # Null => req[o].shop.id # req[r].shop.id
             /\ (ResolverCalled(req[r]) /\ ~Truthy(HeaderValue(req[r]))) =>
                  req[r].st = "TENANT_FAILED" /\ req[r].shop = Null)
  /\ [][\A r \in DOMAIN req :
          /\ (req'[r].shop # Null /\ req'[r].shop # req[r].shop)
               => /\ req'[r].shop.id > count.made
                  /\ count'.made = count.made + 1
                  /\ count'.resolved = count.resolved + 1
          /\ (req'[r].st = "TENANT_FAILED" /\ req[r].st # "TENANT_FAILED")
               => count' = count]_vars

\* a second getInfo for a domain whose info an earlier request cached holds
\* the second handle constructed
C12_Witness ==
  \E r \in DOMAIN req :
    /\ req[r].st = "TENANT_RESOLVED"
    /\ NameOf(req[r]) = "getInfo"
    /\ req[r].shop.domain \in cache
    /\ req[r].shop.id = 2
    /\ count = [resolved |-> 2, made |-> 2]

\* a request without the header ended by the resolver's error after an
\* earlier request obtained the first handle: no handle was constructed for it
C12_WitnessThrow ==
  \E r \in DOMAIN req :
    /\ req[r].st = "TENANT_FAILED"
    /\ ~HasHeader(req[r])
    /\ req[r].shop = Null
    /\ count = [resolved |-> 1, made |-> 1]

\* the options handed to the builder that the router's endpoint of this name
\* came from: of the merged outputs defining it, the last
OptionsGiven(name) ==
  LET from == {i \in DOMAIN built :
                 \E e \in Range(Taken(built[i])) : e.name = name}
  IN built[CHOOSE i \in from : \A j \in from : j <= i].options

\* C13: a handle is bound to exactly the string of the request's x-shop-domain
\* header and carries the options handed over at construction, every
\* capability call is made with that domain and those options, and no request
\* changes the router or the options bound in it.
C13_HandleBoundToHeaderAndOptions ==
  /\ [](\A r \in DOMAIN req :
          LET q == req[r]
          IN q.shop # Null =>
               /\ IsStr(HeaderValue(q))
               /\ q.shop.domain = HeaderValue(q).s
               /\ q.shop.options = OptionsGiven(NameOf(q))
               /\ \A i \in DOMAIN q.calls :
                    /\ q.calls[i].domain = HeaderValue(q).s
                    /\ q.calls[i].options = OptionsGiven(NameOf(q)))
  /\ [][phase = "serving" => (router' = router /\ built' = built)]_vars

\* a handle for a domain with capitals, carrying the configured cache lifetime
C13_Witness ==
  \E r \in DOMAIN req :
    /\ req[r].shop # Null
    /\ req[r].shop.domain = "Shop.Example.com"
    /\ req[r].shop.options = "cacheTTL"
    /\ Len(req[r].calls) = 1

\* the literal paths that a parameterized path of the same method also fits,
\* and the operation each names
LiteralOperation(path) ==
  CASE path = <<"products", "all">> -> "getAllProducts"
    [] path = <<"products", "paginated">> -> "getPaginatedProducts"
    [] path = <<"products", "showcased">> -> "getShowcasedProducts"
    [] path = <<"products", "filters">> -> "getProductFilters"
    [] path = <<"collections", "all">> -> "getAllCollections"
    [] path = <<"collections", "paginated">> -> "getPaginatedCollections"
    [] path = <<"collections", "showcased">> -> "getShowcasedCollections"
    [] OTHER -> "none"

\* C14: GET of a literal path that /products/:handle or /collections/:handle
\* also fits is dispatched to the literal operation: the request is never
\* matched to getProduct or getCollection, gets no handle parameter and calls
\* no find capability.
C14_LiteralBeforeParameter ==
  \A r \in DOMAIN req :
    LET q == req[r]
    IN (q.in.method = "GET" /\ LiteralOperation(q.in.path) # "none" /\ q.ep # 0)
       => /\ NameOf(q) = LiteralOperation(q.in.path)
          /\ q.params = <<>>
          /\ \A i \in DOMAIN q.calls :
               q.calls[i].cap \notin {"products.find", "collections.find"}

\* GET /products/filters and GET /collections/showcased have been handled by
\* their own operations on a router that also holds the parameterized routes
C14_Witness ==
  \E r \in DOMAIN req :
    /\ req[r].st = "HANDLED"
    /\ req[r].in.method = "GET"
    /\ req[r].in.path = <<"collections", "showcased">>
    /\ NameOf(req[r]) = "getShowcasedCollections"
    /\ \E k \in DOMAIN router : router[k].name = "getCollection"
    /\ req[r].calls[1].cap = "collections.showcased"

\* whether a registered endpoint has this method and a path of this shape
Registered(method, path) ==
  \E k \in DOMAIN router :
    /\ router[k].method = method
    /\ Len(router[k].path) = Len(path)
    /\ \A i \in DOMAIN path : router[k].path[i] \in {H, path[i]}

\* C15: a request whose method and path fit no registered operation, a
\* registered path asked with another method included, ends NO_MATCH with the
\* not-found response, and nothing of validation, tenant resolution or a
\* handler happens for it; a request that fits one never ends NO_MATCH.
C15_NoMatchIsNotFound ==
  \A r \in DOMAIN req :
    LET q == req[r]
    IN q.st \notin {"IDLE", "RECEIVED"}
       => IF Registered(q.in.method, q.in.path)
          THEN q.st # "NO_MATCH" /\ q.ep # 0
          ELSE /\ q.st = "NO_MATCH"
               /\ q.resp = Response(NotFound, Null)
               /\ q.ep = 0 /\ q.errs = {}
               /\ NoHandlerLogic(q)
               /\ q.query = <<>> /\ q.body = Undef /\ q.out = Null

\* GET /checkout/url, a path registered for POST only, was answered not-found
C15_Witness ==
  \E r \in DOMAIN req :
    /\ req[r].st = "NO_MATCH"
    /\ req[r].in.method = "GET"
    /\ req[r].in.path = <<"checkout", "url">>
    /\ \E k \in DOMAIN router : router[k].name = "createCheckoutUrl"
    /\ req[r].resp.status = NotFound

\* the builder an operation comes from
BuilderOf(name) ==
  IF name = "openapi" THEN "openapi"
  ELSE CHOOSE b \in Builders : \E e \in Range(Build(b)) : e.name = name

\* the full router: the operations of all five builders and the reference page
FullRouter(options) ==
  Bind(buildStoreEndpoints \o buildProductEndpoints \o buildCollectionEndpoints
       \o buildCheckoutEndpoints \o buildUtilsEndpoints, options)
  \o Bind(<<OpenApiEndpoint>>, "none")

\* the builders something was taken from, and the operations taken
Chosen == {built[i].builder : i \in DOMAIN built}
Included == UNION {built[i].names : i \in DOMAIN built}

\* C16: a router composed from any subset of the builders' operations (whole
\* builders, or single endpoints taken out of them) registers exactly those
\* operations; a request that the full router gives to an operation of a
\* builder nothing was taken from ends not-found; a request that the full
\* router gives to an included operation is given to the same operation with
\* the same options; and whatever operation a request is given to is an
\* operation of the full router, from the builder the full router would
\* have taken it from.
C16_SubsetServesItsOperations ==
  phase = "serving" =>
    LET options == IF built = <<>> THEN "none" ELSE built[1].options
        full == FullRouter(options)
    IN /\ Range(router) = {e \in Range(full) : e.name \in Included \cup {"openapi"}}
       /\ \A r \in DOMAIN req :
            LET q == req[r]
                k == findRoute(full, q.in.method, q.in.path)
            IN q.st \notin {"IDLE", "RECEIVED"}
               => /\ (k = 0 \/ BuilderOf(full[IF k = 0 THEN 1 ELSE k].name)
                                 \notin Chosen \cup {"openapi"})
                       => q.st = "NO_MATCH" /\ q.resp = Response(NotFound, Null)
                  /\ (k # 0 /\ full[IF k = 0 THEN 1 ELSE k].name \in Included \cup {"openapi"})
                       => q.ep # 0 /\ router[q.ep] = full[k]
                  /\ q.ep # 0
                       => /\ k # 0
                          /\ router[q.ep] \in Range(full)
                          /\ BuilderOf(router[q.ep].name) = BuilderOf(full[k].name)

\* on the router of getInfo and getShowcasedProducts alone, POST
\* /info/clear-cache was answered not-found and GET /info was served
C16_Witness ==
  /\ Included = {"getInfo", "getShowcasedProducts"}
  /\ \E r \in DOMAIN req :
       /\ req[r].st = "NO_MATCH"
       /\ req[r].in.method = "POST"
       /\ req[r].in.path = <<"info", "clear-cache">>
       /\ HasHeader(req[r])

\* on a router of the store and checkout builders only, a products route was
\* answered not-found
C16_WitnessBuilders ==
  /\ Included = NamesOf("store") \cup NamesOf("checkout")
  /\ \E r \in DOMAIN req :
       /\ req[r].st = "NO_MATCH"
       /\ req[r].in.method = "GET"
       /\ req[r].in.path = <<"products", "all">>
       /\ HasHeader(req[r])

\* payloads that satisfy the checkout schema: an email, one or two items of
\* string fields, a complete address
WellFormedCheckouts ==
  {Obj([email |-> GoodEmail, items |-> i, address |-> GoodAddress]) :
     i \in {Arr(<<GoodItem>>), Arr(<<GoodItem, GoodItem>>)}}

\* C17: POST /checkout/url with the tenant header and a well-formed payload
\* calls checkout.createUrl once, on the header's store, with the payload; when
\* it returns the string U the response is 200 with body {url: U}.
C17_CheckoutUrlWrapped ==
  \A r \in DOMAIN req :
    LET q == req[r]
    IN (q.st \in Terminal /\ q.ep # 0 /\ NameOf(q) = "createCheckoutUrl"
        /\ Truthy(HeaderValue(q)) /\ q.in.body \in WellFormedCheckouts)
       => /\ Len(q.calls) = 1
          /\ q.calls[1].cap = "checkout.createUrl"
          /\ q.calls[1].domain = HeaderValue(q).s
          /\ q.calls[1].args = <<q.in.body>>
          /\ q.out # Null
          /\ q.out.ok => /\ q.st = "HANDLED"
                         /\ q.out.value \in CheckoutUrls
                         /\ q.resp = Response(OK, Obj([url |-> q.out.value]))

\* the payload of the repository's test was answered with the delegate's URL
C17_Witness ==
  \E r \in DOMAIN req :
    /\ req[r].st = "HANDLED"
    /\ NameOf(req[r]) = "createCheckoutUrl"
    /\ req[r].in.body \in WellFormedCheckouts
    /\ req[r].out = Resolved(CheckoutUrl)
    /\ req[r].resp = Response(OK, Obj([url |-> Str("https://checkout.url")]))

\* operations whose handler returns what the capability resolved with
PassThrough ==
  {"getInfo", "determineStoreType", "getAllProducts", "getPaginatedProducts",
   "getShowcasedProducts", "getProductFilters", "getEnrichedProduct",
   "classifyProduct", "generateProductSEO", "getAllCollections",
   "getPaginatedCollections", "getShowcasedCollections",
   "getCollectionProductsAll", "getCollectionProductsPaginated",
   "getCollectionProductSlugs"}

\* C18: a pass-through operation whose request has the tenant header and
\* passes validation, and whose capability resolves with V, is answered 200
\* with body V, whatever V is.
C18_PassThroughUnmodified ==
  \A r \in DOMAIN req :
    LET q == req[r]
    IN (q.st \in Terminal /\ q.ep # 0 /\ NameOf(q) \in PassThrough
        /\ Truthy(HeaderValue(q)) /\ q.st # "VALIDATION_FAILED")
       => /\ q.out # Null
          /\ q.out.ok => /\ q.st = "HANDLED"
                         /\ q.resp = Response(OK, q.out.value)

\* GET /info for mock.myshopify.com was answered with the delegate's value
C18_Witness ==
  \E r \in DOMAIN req :
    /\ req[r].st = "HANDLED"
    /\ NameOf(req[r]) = "getInfo"
    /\ req[r].in.headers = WithDomain(Str("mock.myshopify.com"))
    /\ req[r].out = Resolved(Entity)
    /\ req[r].resp = Response(OK, Entity)

\* what the request's own input makes of the operation's arguments
OwnArguments(q) ==
  Arguments(NameOf(q), ParamsOf(router[q.ep], q.in.path),
            Piped(Definition(NameOf(q)).pipe, q.in.query), q.in.body)

\* C19: with requests in flight together, each request's handle is its own
\* and bound to its own x-shop-domain value, its capability call is the one of
\* its own operation with arguments from its own validated input, and its
\* response depends on nothing but its own request and what its own capability
\* call settled with: two requests equal in both have equal responses.
C19_RequestsAreIsolated ==
  /\ \A r \in DOMAIN req :
       LET q == req[r]
       IN q.shop # Null =>
            /\ q.shop.domain = HeaderValue(q).s
            /\ \A o \in DOMAIN req \ {r} :
                 req[o].shop # Null => req[o].shop.id # q.shop.id
            /\ Len(q.calls) = 1
            /\ q.calls[1].cap = Capability(NameOf(q))
            /\ q.calls[1].domain = HeaderValue(q).s
            /\ q.calls[1].args = OwnArguments(q)
  /\ \A r, o \in DOMAIN req :
       (/\ req[r].st \in Terminal /\ req[o].st \in Terminal
        /\ req[r].in = req[o].in /\ req[r].out = req[o].out)
       => /\ req[r].resp = req[o].resp
          /\ req[r].st = req[o].st

\* two requests for different stores and different operations are both past
\* their capability call and neither has settled
C19_Witness ==
  /\ req["r1"].st = "TENANT_RESOLVED" /\ req["r2"].st = "TENANT_RESOLVED"
  /\ NameOf(req["r1"]) = "getPaginatedProducts"
  /\ NameOf(req["r2"]) = "getInfo"
  /\ req["r1"].shop.domain = "mock.myshopify.com"
  /\ req["r2"].shop.domain = "Shop.Example.com"
  /\ req["r1"].shop.id = 2 /\ req["r2"].shop.id = 1

\* C20: no capability is called a second time: a handler on a handle makes
\* at most one call, detectCountry makes its fetch, res.text and
\* detectShopCountry once each, one after the other; a failure of a call ends
\* the request at once in its error response with no further call, and a
\* request that has ended makes no further call and keeps its response.
C20_NoRetry ==
  /\ [](\A r \in DOMAIN req :
          LET q == req[r]
          IN /\ \A i, j \in DOMAIN q.calls :
                  i # j => q.calls[i].cap # q.calls[j].cap
             /\ (q.ep = 0 \/ NameOf(q) # "detectCountry") => Len(q.calls) <= 1
             /\ q.out = Rejected => /\ q.st = "HANDLER_FAILED"
                                    /\ Len(q.calls) >= 1
                                    /\ q.resp = Response(ServerError, Null))
  /\ [][\A r \in DOMAIN req :
          /\ req[r].st \in Terminal => (req'[r] = req[r] \/ req'[r].st = "IDLE")
          /\ (req[r].st = "TENANT_RESOLVED" /\ req'[r] # req[r])
               => \/ req'[r].st \in Terminal /\ req'[r].calls = req[r].calls
                  \/ /\ NameOf(req[r]) = "detectCountry"
                     /\ req'[r].st = "TENANT_RESOLVED"
                     /\ req'[r].out = Null
                     /\ Len(req'[r].calls) = Len(req[r].calls) + 1
                     /\ SubSeq(req'[r].calls, 1, Len(req[r].calls)) = req[r].calls]_vars

\* getInfo's capability rejected and the request ended with its one call
C20_Witness ==
  \E r \in DOMAIN req :
    /\ req[r].st = "HANDLER_FAILED"
    /\ NameOf(req[r]) = "getInfo"
    /\ req[r].out = Rejected
    /\ Len(req[r].calls) = 1
    /\ req[r].calls[1].cap = "getInfo"

\* the handler of this request has run code of the delegate: a call is
\* recorded for it, or a slug was computed
DelegateInvoked(q) == q.calls # <<>> \/ q.ran # {}

\* C21 as stated: validation precedes tenant resolution and tenant resolution
\* precedes the delegate: a request that failed validation has status 400 and
\* neither a handle nor any delegate logic, and the delegate (a capability on
\* the handle, the country detection, the slug functions) has only been
\* invoked for a request whose input was valid and for which the resolver
\* returned a handle.
C21_DelegateAfterValidationAndResolution ==
  \A r \in DOMAIN req :
    LET q == req[r]
    IN /\ q.st = "VALIDATION_FAILED" =>
            /\ NoHandlerLogic(q)
            /\ q.resp.status = BadRequest
       /\ DelegateInvoked(q) =>
            /\ InputValid(q)
            /\ q.shop # Null
            /\ q.st \in {"TENANT_RESOLVED", "HANDLED", "HANDLER_FAILED"}

\* what remains of C21 apart from the utils operations: on the operations
\* that call the resolver, validation precedes resolution and resolution
\* precedes the capability call
C21_OrderOnResolvingOperations ==
  \A r \in DOMAIN req :
    LET q == req[r]
    IN (q.ep # 0 /\ Delegating(NameOf(q))) =>
         /\ q.st = "VALIDATION_FAILED" =>
              /\ NoHandlerLogic(q)
              /\ q.resp.status = BadRequest
         /\ DelegateInvoked(q) =>
              /\ InputValid(q)
              /\ q.shop # Null
              /\ q.st \in {"TENANT_RESOLVED", "HANDLED", "HANDLER_FAILED"}

\* C22 as stated: no handler takes the tenant domain from the raw headers;
\* whenever a handler's logic has used a domain (a capability call, the
\* fetch of detectCountry, a slug computation) the request holds the handle
\* the resolver returned and the domain used is that handle's.
C22_DomainOnlyFromHandle ==
  \A r \in DOMAIN req :
    LET q == req[r]
    IN /\ \A i \in DOMAIN q.calls :
            q.shop # Null /\ q.calls[i].domain = q.shop.domain
       /\ "slug" \in q.ran => q.shop # Null

\* the force flag the capability getInfo was called with
ForceDelivered(q) == Get(q.calls[1].args[1].f, "force")

\* C23: on GET /info a force query value present as a string reaches the
\* capability getInfo as a boolean: true when the value is the string "true",
\* false for every other present string.
C23_ForceCoerced ==
  \A r \in DOMAIN req :
    LET q == req[r]
    IN (q.ep # 0 /\ NameOf(q) = "getInfo" /\ q.calls # <<>>
        /\ "force" \in DOMAIN q.in.query) =>
         /\ IsStr(q.in.query.force)
         /\ q.calls[1].cap = "getInfo"
         /\ Len(q.calls[1].args) = 1
         /\ q.in.query.force = Str("true") => ForceDelivered(q) = Bool(TRUE)
         /\ q.in.query.force # Str("true") => ForceDelivered(q) = Bool(FALSE)

\* getInfo was called with force false for a request that carried force=1
C23_Witness ==
  \E r \in DOMAIN req :
    LET q == req[r]
    IN /\ q.ep # 0 /\ NameOf(q) = "getInfo" /\ q.calls # <<>>
       /\ q.in.query = [force |-> Str("1")]
       /\ ForceDelivered(q) = Bool(FALSE)

\* C24: in the page/limit coercion of the three paginated operations the
\* text "0" reaches the capability as the number 0, while the number 0 and
\* the empty text reach it as undefined.
C24_ZeroByTruthiness ==
  \A r \in DOMAIN req :
    LET q == req[r]
    IN (q.ep # 0 /\ NameOf(q) \in PaginatedHandlers /\ q.calls # <<>>) =>
         \A key \in {"page", "limit"} :
           key \in DOMAIN q.in.query =>
             /\ q.in.query[key] = Chars(<<"0">>) => OptionsPassed(q)[key] = Num(0)
             /\ q.in.query[key] \in {Num(0), Chars(<<>>)} =>
                  OptionsPassed(q)[key] = Undef

\* the capability of GET /collections/paginated was called with page 0 for
\* ?page=0 given as text
C24_Witness ==
  \E r \in DOMAIN req :
    LET q == req[r]
    IN /\ q.ep # 0 /\ NameOf(q) = "getPaginatedCollections" /\ q.calls # <<>>
       /\ q.in.query = [page |-> Chars(<<"0">>)]
       /\ OptionsPassed(q).page = Num(0)

\* the same capability was called with page undefined for the number 0
C24_WitnessNumber ==
  \E r \in DOMAIN req :
    LET q == req[r]
    IN /\ q.ep # 0 /\ NameOf(q) \in PaginatedHandlers /\ q.calls # <<>>
       /\ "page" \in DOMAIN q.in.query /\ q.in.query.page = Num(0)
       /\ OptionsPassed(q).page = Undef

\* a non-empty text that is not a decimal number
NonNumericText(v) ==
  /\ v.t = "string" /\ "c" \in DOMAIN v /\ v.c # <<>>
  /\ \E i \in 1..Len(v.c) : \A n \in 0..9 : ToString(n) # v.c[i]

\* C25: on the paginated operations a page or limit that is a non-empty text
\* but not a number is not rejected: the request is not answered 400, it goes
\* on to the handler, and once the capability is called it has received
\* not-a-number for that parameter.
C25_NonNumericPageAccepted ==
  \A r \in DOMAIN req :
    LET q == req[r]
    IN (q.ep # 0 /\ NameOf(q) \in PaginatedHandlers) =>
         \A key \in {"page", "limit"} :
           (DOMAIN q.in.query = {key} /\ NonNumericText(q.in.query[key])) =>
             /\ q.st # "VALIDATION_FAILED"
             /\ q.resp # Null => q.resp.status # BadRequest
             /\ q.calls # <<>> => OptionsPassed(q)[key] = NaN
             /\ (q.st \in Terminal /\ Truthy(HeaderValue(q))) => q.calls # <<>>

\* GET /products/paginated?page=a has called the capability with page NaN
C25_Witness ==
  \E r \in DOMAIN req :
    LET q == req[r]
    IN /\ q.ep # 0 /\ NameOf(q) = "getPaginatedProducts"
       /\ q.in.query = [page |-> Chars(<<"a">>)]
       /\ q.calls # <<>>
       /\ q.calls[1].cap = "products.paginated"
       /\ OptionsPassed(q).page = NaN

\* C26: the resolver treats an x-shop-domain header whose value is the empty
\* string like a missing header: it throws the identification error and no
\* handle is constructed; for every non-empty value it constructs a handle
\* for that value and does not throw.
C26_EmptyHeaderIsMissing ==
  \A r \in DOMAIN req :
    LET q == req[r]
    IN ResolverCalled(q) =>
         IF HeaderValue(q) \in {Null, Str("")}
         THEN /\ q.st = "TENANT_FAILED"
              /\ q.shop = Null
              /\ q.calls = <<>>
              /\ q.errs = {"identification"}
              /\ q.resp = Response(ServerError, Null)
         ELSE /\ q.st # "TENANT_FAILED"
              /\ "identification" \notin q.errs
              /\ q.shop # Null
              /\ Str(q.shop.domain) = HeaderValue(q)

\* a request whose header is present and empty ended with the
\* identification failure
C26_Witness ==
  \E r \in DOMAIN req :
    LET q == req[r]
    IN /\ ResolverCalled(q)
       /\ HasHeader(q) /\ HeaderValue(q) = Str("")
       /\ q.st = "TENANT_FAILED"

\* the domain text a slug request designates: its domain query, else its
\* x-shop-domain header, else the empty text
DomainInput(q) ==
  IF "domain" \in DOMAIN q.in.query THEN q.in.query.domain.s
  ELSE IF HasHeader(q) THEN HeaderValue(q).s
  ELSE ""

\* C27: getStoreSlug and getProductSlug compute the slug from the domain
\* query when it is present, else from the x-shop-domain header, else from
\* the empty text; they never call the resolver, so a valid request always
\* ends with status 200 and a slug, also when it names no domain at all.
C27_SlugDomainFallback ==
  \A r \in DOMAIN req :
    LET q == req[r]
    IN (q.ep # 0 /\ NameOf(q) \in SlugHandlers /\ PastValidation(q)
        /\ q.st # "VALIDATION_FAILED") =>
         /\ q.st \in {"VALIDATED", "HANDLED"}
         /\ q.shop = Null /\ q.calls = <<>> /\ q.errs = {}
         /\ q.st = "HANDLED" =>
              /\ q.resp.status = OK
              /\ q.resp.body.f.slug.slugOf[1] = sanitizeDomain(DomainInput(q))
              /\ NameOf(q) = "getProductSlug" =>
                   q.resp.body.f.slug.slugOf[2] = q.in.query.handle.s

\* GET /utils/store-slug with neither a domain query nor the header was
\* answered 200 with the slug of the empty domain
C27_Witness ==
  \E r \in DOMAIN req :
    LET q == req[r]
    IN /\ q.ep # 0 /\ NameOf(q) = "getStoreSlug" /\ q.st = "HANDLED"
       /\ q.in.query = <<>> /\ ~HasHeader(q)
       /\ q.resp = Response(OK, Obj([slug |-> generateStoreSlug("")]))

\* the (method, path) pairs a router serves besides the reference page
Operations(table) ==
  {<<table[i].method, table[i].path>> :
     i \in {j \in DOMAIN table : table[j].name # "openapi"}}

\* C28: the router composed from the builders and the single-function router
\* are equivalent: they register the same 19 (method, path) operations with
\* the same schemas, and every request served by the composed router has the
\* validation outcome, the capability call with its arguments and the
\* response status and body that the single-function router gives for the
\* same request and the same capability outcome.
C28_ComposedEqualsMonolith ==
  (phase = "serving" /\ router = betterShop(built[1].options)) =>
    LET options == built[1].options
    IN /\ Operations(router) = Operations(monolithBetterShop(options))
       /\ Cardinality(Operations(router)) = 19
       /\ \A i \in DOMAIN monolithEndpoints :
            monolithEndpoints[i] = Definition(monolithEndpoints[i].name)
       /\ \A r \in DOMAIN req :
            LET q == req[r]
                \* while the capability has not settled, any outcome stands for it
                m == monolithHandler(options, q.in,
                                     IF Settled(q) THEN q.out ELSE Rejected)
            IN /\ q.st \in Terminal => q.resp = m.resp /\ q.calls = m.calls
               /\ q.st = "TENANT_RESOLVED" => q.calls = m.calls
               /\ q.st \in Terminal =>
                    (q.st = "VALIDATION_FAILED" <=> m.resp.status = BadRequest)
               /\ q.shop # Null =>
                    /\ ~monolithGetShop(options, q.in.headers).threw
                    /\ monolithGetShop(options, q.in.headers).shop.domain = q.shop.domain
                    /\ monolithGetShop(options, q.in.headers).shop.options = q.shop.options

\* on the composed router GET /collections/paginated?page=2 was answered 200
\* with what the capability returned
C28_Witness ==
  /\ phase = "serving" /\ router = betterShop(built[1].options)
  /\ \E r \in DOMAIN req :
       LET q == req[r]
       IN /\ q.st = "HANDLED" /\ NameOf(q) = "getPaginatedCollections"
          /\ q.in.query = [page |-> Two]
          /\ q.resp = monolithHandler(built[1].options, q.in, q.out).resp
          /\ q.resp.status = OK

\* the operations whose path carries :handle, by what they pass after it
HandleBodyOperations == {"getEnrichedProduct", "classifyProduct", "generateProductSEO"}
HandleQueryOperations ==
  {"getProduct", "getCollectionProductsAll", "getCollectionProductsPaginated"}
HandleOnlyOperations == {"getCollection", "getCollectionProductSlugs"}
HandleOperations ==
  HandleBodyOperations \cup HandleQueryOperations \cup HandleOnlyOperations

\* the query options a handle operation passes on, read from the validated query
QueryKeys(name) ==
  IF name = "getCollectionProductsPaginated" THEN {"page", "limit", "currency"}
  ELSE {"currency"}

\* C29: for the operations on /products/:handle... and /collections/:handle...
\* the capability receives the path segment matched by :handle as its first
\* argument and the validated body, or the options of the validated query,
\* as its second; when the capability resolves, only the two find operations
\* turn an absent result into a failure, every other operation answers 200
\* with whatever was returned.
C29_HandleAndInputPassed ==
  \A r \in DOMAIN req :
    LET q == req[r]
        name == NameOf(q)
        args == q.calls[1].args
    IN (q.ep # 0 /\ name \in HandleOperations /\ q.calls # <<>>) =>
         /\ Len(q.calls) = 1
         /\ Len(q.in.path) >= 2 /\ args[1] = Str(q.in.path[2])
         /\ name \in HandleBodyOperations =>
              /\ Len(args) = 2 /\ args[2] = q.in.body
              /\ Conforms(Definition(name).body, args[2])
         /\ name \in HandleQueryOperations =>
              /\ Len(args) = 2
              /\ Conforms(Definition(name).query, Obj(q.in.query))
              /\ args[2] = Obj([k \in QueryKeys(name) |-> Get(q.query, k)])
         /\ name \in HandleOnlyOperations => Len(args) = 1
         /\ (Settled(q) /\ q.out.ok) =>
              IF name \in {"getProduct", "getCollection"} /\ Absent(q.out.value)
              THEN q.st = "HANDLER_FAILED" /\ q.resp = Response(ServerError, Null)
              ELSE q.st = "HANDLED" /\ q.resp = Response(OK, q.out.value)

\* POST /products/exists/enriched called products.enriched("exists", body) and
\* answered 200 with the absent value the capability resolved with
C29_Witness ==
  \E r \in DOMAIN req :
    LET q == req[r]
    IN /\ q.ep # 0 /\ NameOf(q) = "getEnrichedProduct" /\ q.st = "HANDLED"
       /\ q.in.path = <<"products", "exists", "enriched">>
       /\ q.calls[1].cap = "products.enriched"
       /\ q.calls[1].args = <<Str("exists"), q.in.body>>
       /\ q.in.body # Undef
       /\ q.out = Resolved(Null)
       /\ q.resp = Response(OK, Null)

====
